---- MODULE Spec2Model ----
(***************************************************************************)
(* Verge: convergence tester for sequences in one variable n.              *)
(*                                                                         *)
(* Pipeline: input text -> tokens (Tokenizer) -> Expression tree (Parser)  *)
(* -> BaseFunction (parseFunction) -> ConvergenceResult (converge).        *)
(*                                                                         *)
(* Numbers.  The program computes with IEEE doubles.  A number is modelled *)
(* as a record [n, d] read as the fraction n/d, d >= 0, in lowest terms:   *)
(*   d > 0          the finite value n/d                                   *)
(*   n = 1,  d = 0  +Infinity                                              *)
(*   n = -1, d = 0  -Infinity                                              *)
(*   n = 0,  d = 0  NaN                                                    *)
(* Small integers and small dyadic fractions are exact in both; a value    *)
(* whose numerator or denominator outgrows the representation is rounded   *)
(* (Fit), which is the model's counterpart of double rounding.  Negative   *)
(* zero is identified with zero.                                           *)
(***************************************************************************)
EXTENDS Integers, Sequences, FiniteSets, TLC

VARIABLES pc, input, tokens, expr, operand, func, result

vars == <<pc, input, tokens, expr, operand, func, result>>

-----------------------------------------------------------------------------
(* Number arithmetic *)

Abs(x) == IF x < 0 THEN -x ELSE x

Sgn(x) == IF x > 0 THEN 1 ELSE IF x < 0 THEN -1 ELSE 0

Min2(a, b) == IF a < b THEN a ELSE b

Max2(a, b) == IF a > b THEN a ELSE b

RECURSIVE Gcd(_, _)
Gcd(a, b) == IF b = 0 THEN a ELSE Gcd(b, a % b)

Num(n, d) == [n |-> n, d |-> d]

Infinity == Num(1, 0)

NegInfinity == Num(-1, 0)

NaN == Num(0, 0)

Zero == Num(0, 1)

One == Num(1, 1)

Undefined == [undefined |-> TRUE]

(* a variable or parameter that holds nothing *)
None == [none |-> TRUE]

IsNum(x) == DOMAIN x = {"n", "d"}

IsNaN(x) == x.n = 0 /\ x.d = 0

IsInf(x) == x.n # 0 /\ x.d = 0

isFinite(x) == x.d > 0

(* Numerators and denominators up to 30000 are kept exactly; beyond that a  *)
(* value keeps about four significant digits (denominator 1000, 100, 10 or *)
(* 1 by magnitude) and saturates at 30000.  A nonzero value never rounds   *)
(* to zero.                                                                *)
FitReduce(s, mm, g, g2) == Num(s * (mm \div g2), g \div g2)

FitScale(s, m, dd, g) ==
    FitReduce(s, Max2((m * g) \div dd, 1), g, Gcd(Max2((m * g) \div dd, 1), g))

FitRound(n1, d1, ip, q) ==
    IF ip >= 30000 THEN Num(Sgn(n1) * 30000, 1)
    ELSE FitScale(Sgn(n1), Abs(n1) \div q, d1 \div q,
                  IF ip < 30 THEN 1000 ELSE IF ip < 300 THEN 100
                  ELSE IF ip < 3000 THEN 10 ELSE 1)

FitLowest(n1, d1) ==
    IF Abs(n1) <= 30000 /\ d1 <= 30000 THEN Num(n1, d1)
    ELSE FitRound(n1, d1, Abs(n1) \div d1, Max2(d1 \div 1000, 1))

FitBy(n, d, g0) == FitLowest(n \div g0, d \div g0)

Fit(n, d) == FitBy(n, d, Gcd(Abs(n), d))

(* n/d for any integers n, d with d # 0 *)
Frac(n, d) == IF d < 0 THEN Fit(-n, -d) ELSE Fit(n, d)

NumNeg(x) == Num(-x.n, x.d)

(* Math.sign: NaN for NaN, 0 for 0, otherwise +1 or -1 *)
MathSign(x) == IF IsNaN(x) THEN NaN ELSE Num(Sgn(x.n), 1)

NumAdd(x, y) ==
    IF IsNaN(x) \/ IsNaN(y) THEN NaN
    ELSE IF IsInf(x) /\ IsInf(y) THEN (IF x.n = y.n THEN x ELSE NaN)
    ELSE IF IsInf(x) THEN x
    ELSE IF IsInf(y) THEN y
    ELSE Fit(x.n * y.d + y.n * x.d, x.d * y.d)

NumMul(x, y) ==
    IF IsNaN(x) \/ IsNaN(y) THEN NaN
    ELSE IF IsInf(x) \/ IsInf(y)
         THEN (IF x.n = 0 \/ y.n = 0 THEN NaN ELSE Num(Sgn(x.n) * Sgn(y.n), 0))
    ELSE Fit(x.n * y.n, x.d * y.d)

NumDiv(x, y) ==
    IF IsNaN(x) \/ IsNaN(y) THEN NaN
    ELSE IF IsInf(x) THEN (IF IsInf(y) THEN NaN
                           ELSE Num(x.n * (IF y.n < 0 THEN -1 ELSE 1), 0))
    ELSE IF IsInf(y) THEN Zero
    ELSE IF y.n = 0 THEN (IF x.n = 0 THEN NaN ELSE Num(Sgn(x.n), 0))
    ELSE Frac(x.n * y.d, x.d * y.n)

(* x < y, false when either is NaN *)
NumLt(x, y) ==
    IF IsNaN(x) \/ IsNaN(y) THEN FALSE
    ELSE IF IsInf(x) THEN x.n < 0 /\ y # x
    ELSE IF IsInf(y) THEN y.n > 0
    ELSE x.n * y.d < y.n * x.d

(* JavaScript ===: NaN equals nothing, undefined equals undefined *)
StrictEq(x, y) == x = y /\ ~(IsNum(x) /\ IsNaN(x))

(* JavaScript truthiness of an optional number: undefined, NaN and 0 are falsy *)
Truthy(x) == IsNum(x) /\ x.n # 0

-----------------------------------------------------------------------------
(* Math library functions, to thousandths *)

(* a finite value in thousandths, truncated toward zero *)
ToMilli(x) == Sgn(x.n) * ((Abs(x.n) * 1000) \div x.d)

IsInteger(x) == x.d = 1

RECURSIVE TaylorSum(_, _, _, _, _)
(* sum of the series whose term i+1 is term * fac \div (1000 * Den(i)), where *)
(* the divisor sequence is given by kind: "exp", "sin", "cos", "atanh"       *)
TaylorSum(kind, term, fac, i, acc) ==
    IF i > 9 \/ term = 0 THEN acc
    ELSE LET den == CASE kind = "exp" -> i
                      [] kind = "sin" -> (2 * i) * (2 * i + 1)
                      [] kind = "cos" -> (2 * i - 1) * (2 * i)
                      [] OTHER -> 1
             sg == IF kind \in {"sin", "cos"} THEN -1 ELSE 1
             raw == (Abs(term) * Abs(fac)) \div (1000 * den)
             next == sg * Sgn(term) * Sgn(fac) * raw
             add == IF kind = "atanh" THEN next \div (2 * i + 1)
                    ELSE next
         IN  TaylorSum(kind, next, fac, i + 1, acc + add)

RECURSIVE PowInt(_, _)
PowInt(b, k) == IF k = 0 THEN One ELSE NumMul(b, PowInt(b, k - 1))

(* e^k * ef for an integer k *)
ExpScale(k, ef) ==
    IF k > 709 THEN Infinity
    ELSE IF k < -745 THEN Zero
    ELSE IF k >= 11 THEN Num(30000, 1)
    ELSE IF k < -11 THEN Num(1, 30000)
    ELSE IF k >= 0 THEN NumMul(PowInt(Num(2718, 1000), k), ef)
    ELSE NumDiv(ef, PowInt(Num(2718, 1000), -k))

(* e^(m/1000) = e^k * e^(f/1000) with k the integer part *)
ExpMilli(m, k) ==
    ExpScale(k, Frac(TaylorSum("exp", 1000, m - 1000 * k, 1, 1000), 1000))

(* Math.E ** x *)
MathExp(x) ==
    IF IsNaN(x) THEN NaN
    ELSE IF IsInf(x) THEN (IF x.n > 0 THEN Infinity ELSE Zero)
    ELSE ExpMilli(ToMilli(x), ToMilli(x) \div 1000)

RECURSIVE LnReduce(_, _)
(* <<y, k>> with x = y * 2^k and 1 <= y < 2 *)
LnReduce(y, k) ==
    IF y.n >= 2 * y.d THEN LnReduce(Fit(y.n, 2 * y.d), k + 1)
    ELSE IF y.n < y.d THEN LnReduce(Fit(2 * y.n, y.d), k - 1)
    ELSE <<y, k>>

(* ln(y * 2^k) = k ln 2 + 2 atanh(z), z = (y - 1)/(y + 1) in thousandths *)
LogSeries(k, z) ==
    Frac(k * 693 + 2 * TaylorSum("atanh", z, (z * z) \div 1000, 1, z), 1000)

LogReduced(y, k) == LogSeries(k, ((y.n - y.d) * 1000) \div (y.n + y.d))

LogOf(r) == LogReduced(r[1], r[2])

(* Math.log *)
MathLog(x) ==
    IF IsNaN(x) \/ x.n < 0 THEN NaN
    ELSE IF IsInf(x) THEN Infinity
    ELSE IF x.n = 0 THEN NegInfinity
    ELSE LogOf(LnReduce(x, 0))

(* an angle m in thousandths reduced to (-pi, pi] *)
ReduceAngle(m) == IF m % 6283 > 3142 THEN (m % 6283) - 6283 ELSE m % 6283

(* the sine and cosine series of an angle r in thousandths *)
SinSeries(r) == Frac(TaylorSum("sin", r, (r * r) \div 1000, 1, r), 1000)

CosSeries(r) == Frac(TaylorSum("cos", 1000, (r * r) \div 1000, 1, 1000), 1000)

MathSin(x) == IF ~isFinite(x) THEN NaN ELSE SinSeries(ReduceAngle(ToMilli(x)))

MathCos(x) == IF ~isFinite(x) THEN NaN ELSE CosSeries(ReduceAngle(ToMilli(x)))

RECURSIVE Isqrt(_, _, _)
(* largest s in lo..hi with s*s <= v *)
Isqrt(v, lo, hi) ==
    IF lo >= hi THEN lo
    ELSE LET mid == (lo + hi + 1) \div 2
         IN  IF mid * mid <= v THEN Isqrt(v, mid, hi) ELSE Isqrt(v, lo, mid - 1)

MathSqrt(x) ==
    IF IsNaN(x) \/ x.n < 0 THEN NaN
    ELSE IF IsInf(x) THEN Infinity
    ELSE IF x.n \div x.d >= 2000 THEN Num(Isqrt(x.n \div x.d, 0, 46340), 1)
    ELSE Frac(Isqrt(((x.n * 1000) \div x.d) * 1000, 0, 46340), 1000)

PowSigned(b, l, mag) == IF b.n < 0 /\ l.n % 2 = 1 THEN NumNeg(mag) ELSE mag

(* Math.pow(b, l) *)
MathPow(b, l) ==
    IF IsNaN(l) THEN NaN
    ELSE IF l.n = 0 /\ l.d > 0 THEN One
    ELSE IF IsNaN(b) THEN NaN
    ELSE IF IsInf(l)
         THEN (IF Abs(b.n) = b.d THEN NaN
               ELSE IF (Abs(b.n) > b.d \/ IsInf(b)) = (l.n > 0) THEN Infinity
               ELSE Zero)
    ELSE IF IsInf(b)
         THEN (IF l.n < 0 THEN Zero
               ELSE IF b.n < 0 /\ IsInteger(l) /\ l.n % 2 = 1 THEN NegInfinity
               ELSE Infinity)
    ELSE IF b.n = 0 THEN (IF l.n > 0 THEN Zero ELSE Infinity)
    ELSE IF IsInteger(l) /\ Abs(l.n) <= 64
         THEN (IF l.n > 0 THEN PowInt(b, l.n) ELSE NumDiv(One, PowInt(b, -l.n)))
    ELSE IF b.n < 0 /\ ~IsInteger(l) THEN NaN
    ELSE PowSigned(b, l, MathExp(NumMul(l, MathLog(Num(Abs(b.n), b.d)))))

-----------------------------------------------------------------------------
(* ConvergenceResult and GrowthKind *)

Exponential == 0

Polynomial == 1

Logarithmic == 2

(* new ConvergenceResult().converge(limit, growthKind) *)
Converge(limit, growthKind) ==
    [converges |-> TRUE, limit |-> limit, growthKind |-> growthKind]

(* new ConvergenceResult().diverge(divergeTo, growthKind) *)
Diverge(divergeTo, growthKind) ==
    [converges |-> FALSE, divergeTo |-> divergeTo, growthKind |-> growthKind]

(* new ConvergenceResult().divergeIndeterminant() *)
DivergeIndeterminant == [converges |-> FALSE]

(* a thrown Error, as the value that takes the place of the result *)
Thrown(message) == [error |-> message]

IsThrown(r) == "error" \in DOMAIN r

(* an optional field: undefined when it was never assigned *)
Get(r, f) == IF f \in DOMAIN r THEN r[f] ELSE Undefined

(* r.growthKind ?? GrowthKind.Polynomial *)
GrowthOr(r) == IF "growthKind" \in DOMAIN r THEN r.growthKind ELSE Polynomial

TanNotSupported == "Convergence of tangent function not supported"

RationalFailed == "Failed to evaluate limt of rational function"

UnsupportedExponent ==
    "Unsupported exponent type in power expression for function parsing"

UnsupportedExpression == "Unsupported expression for function parsing"

UnsupportedFunction == "Unsupported function"

-----------------------------------------------------------------------------
(* BaseFunction variants *)

RECURSIVE Trim(_)
(* the constructor's loop: pop trailing coefficients that === 0 *)
Trim(cs) ==
    IF Len(cs) > 1 /\ StrictEq(cs[Len(cs)], Zero)
    THEN Trim(SubSeq(cs, 1, Len(cs) - 1))
    ELSE cs

(* a variant of the constructor that keeps the coefficients as given *)
NewPolynomialUntrimmed(coefficients) ==
    [cls |-> "Polynomial",
     coefficients |-> IF Len(coefficients) > 0 THEN coefficients ELSE <<Zero>>]

(* new Polynomial(coefficients) *)
NewPolynomial(coefficients) ==
    LET trimmed == Trim(coefficients)
    IN  [cls |-> "Polynomial",
         coefficients |-> IF Len(trimmed) > 0 THEN trimmed ELSE <<Zero>>]

RationalFunction(numerator, denominator) ==
    [cls |-> "RationalFunction", numerator |-> numerator,
     denominator |-> denominator]

AddFunction(left, right) ==
    [cls |-> "AddFunction", left |-> left, right |-> right]

MultiplyFunction(left, right) ==
    [cls |-> "MultiplyFunction", left |-> left, right |-> right]

DivideFunction(numerator, denominator) ==
    [cls |-> "DivideFunction", numerator |-> numerator,
     denominator |-> denominator]

(* SinFunction, CosFunction, TanFunction, LnFunction, SqrtFunction, EExpFunction *)
Wrapper(cls, argument) == [cls |-> cls, argument |-> argument]

LogFunction(argument, base) ==
    [cls |-> "LogFunction", argument |-> argument, base |-> base]

ConstantBaseExpFunction(base, exponent) ==
    [cls |-> "ConstantBaseExpFunction", base |-> base, exponent |-> exponent]

WrapperClasses ==
    {"EExpFunction", "LogFunction", "LnFunction", "SinFunction", "CosFunction",
     "TanFunction", "SqrtFunction"}

IsPolynomial(f) == f.cls = "Polynomial"

IsRational(f) == f.cls = "RationalFunction"

MinusOne == NewPolynomial(<<Num(-1, 1)>>)

(* Polynomial.add, both polynomials: pad to the longer length and sum *)
PolyAdd(a, b) ==
    LET maxDegree == Max2(Len(a), Len(b))
    IN  NewPolynomial([i \in 1..maxDegree |->
            NumAdd(IF i <= Len(a) THEN a[i] ELSE Zero,
                   IF i <= Len(b) THEN b[i] ELSE Zero)])

RECURSIVE ConvCell(_, _, _, _, _)
(* newCoeffs[k] after the double loop: the sum over i of a[i] * b[k - i] *)
ConvCell(a, b, k, i, acc) ==
    IF i > Len(a) THEN acc
    ELSE LET j == k - i + 1
         IN  ConvCell(a, b, k, i + 1,
                 IF j >= 1 /\ j <= Len(b) THEN NumAdd(acc, NumMul(a[i], b[j]))
                 ELSE acc)

(* Polynomial.multiply, both polynomials: convolution *)
PolyMultiply(a, b) ==
    NewPolynomial([k \in 1..(Len(a) + Len(b) - 1) |-> ConvCell(a, b, k, 1, Zero)])

-----------------------------------------------------------------------------
(* The combinators add, multiply, divide (dispatch on the receiver's class) *)
(* and the limit evaluator converge.  divide may end in a thrown Error:     *)
(* ConstantBaseExpFunction.divide calls converge on both exponents.         *)

RECURSIVE Invoke(_, _, _)

(* The calls a.add(b), a.multiply(b), a.divide(b), converge(f) and         *)
(* parseFunction(e); Invoke selects the code that runs.                    *)
add(this, other) == Invoke("add", this, other)

multiply(this, other) == Invoke("multiply", this, other)

divide(this, other) == Invoke("divide", this, other)

converge(f) == Invoke("converge", f, None)

parseFunction(e) == Invoke("parseFunction", e, None)

(* Polynomial.add *)
PolynomialAdd(this, other) ==
    IF IsPolynomial(other)
    THEN PolyAdd(this.coefficients, other.coefficients)
    ELSE IF IsRational(other)
    THEN LET ac == multiply(this, other.denominator)
             newNumerator == add(ac, other.numerator)
         IN  RationalFunction(newNumerator, other.denominator)
    ELSE AddFunction(this, other)

(* RationalFunction.add *)
RationalAdd(this, other) ==
    IF IsRational(other)
    THEN LET ad == multiply(this.numerator, other.denominator)
             bc == multiply(this.denominator, other.numerator)
             bd == multiply(this.denominator, other.denominator)
         IN  RationalFunction(add(ad, bc), bd)
    ELSE LET bc == multiply(this.denominator, other)
         IN  RationalFunction(add(this.numerator, bc), this.denominator)

(* Polynomial.multiply *)
PolynomialMultiply(this, other) ==
    IF IsPolynomial(other)
    THEN PolyMultiply(this.coefficients, other.coefficients)
    ELSE IF IsRational(other)
    THEN RationalFunction(multiply(this, other.numerator), other.denominator)
    ELSE MultiplyFunction(this, other)

(* RationalFunction.multiply *)
RationalMultiply(this, other) ==
    IF IsRational(other)
    THEN RationalFunction(multiply(this.numerator, other.numerator),
                          multiply(this.denominator, other.denominator))
    ELSE RationalFunction(multiply(this.numerator, other), this.denominator)

(* ConstantBaseExpFunction.multiply *)
ExpMultiply(this, other) ==
    IF other.cls = "ConstantBaseExpFunction" /\ StrictEq(this.base, other.base)
    THEN ConstantBaseExpFunction(this.base, add(this.exponent, other.exponent))
    ELSE MultiplyFunction(this, other)

(* Polynomial.divide *)
PolynomialDivide(this, other) ==
    IF IsPolynomial(other) THEN RationalFunction(this, other)
    ELSE IF IsRational(other)
    THEN RationalFunction(multiply(this, other.denominator), other.numerator)
    ELSE DivideFunction(this, other)

(* RationalFunction.divide *)
RationalDivide(this, other) ==
    RationalFunction(this.numerator, multiply(this.denominator, other))

(* ConstantBaseExpFunction.divide *)
ExpDivide(this, other) ==
    IF other.cls = "ConstantBaseExpFunction"
    THEN LET thisExpConv == converge(this.exponent)
             otherExpConv == converge(other.exponent)
         IN  IF IsThrown(thisExpConv) THEN thisExpConv
             ELSE IF IsThrown(otherExpConv) THEN otherExpConv
             ELSE IF StrictEq(this.base, other.base)
             THEN ConstantBaseExpFunction(this.base,
                      add(this.exponent, multiply(other.exponent, MinusOne)))
             ELSE IF thisExpConv.converges /\ otherExpConv.converges
                     /\ StrictEq(Get(thisExpConv, "limit"), Get(otherExpConv, "limit"))
             THEN ConstantBaseExpFunction(NumDiv(this.base, other.base), this.exponent)
             ELSE IF ~thisExpConv.converges /\ ~otherExpConv.converges
                     /\ StrictEq(Get(thisExpConv, "divergeTo"),
                                 Get(otherExpConv, "divergeTo"))
             THEN ConstantBaseExpFunction(NumDiv(this.base, other.base), this.exponent)
             ELSE DivideFunction(this, other)
    ELSE DivideFunction(this, other)

(* this.add(other), by the class of this; the other classes build an AddFunction *)
AddMethod(this, other) ==
    CASE this.cls = "Polynomial" -> PolynomialAdd(this, other)
      [] this.cls = "RationalFunction" -> RationalAdd(this, other)
      [] OTHER -> AddFunction(this, other)

(* this.multiply(other), by the class of this *)
MultiplyMethod(this, other) ==
    CASE this.cls = "Polynomial" -> PolynomialMultiply(this, other)
      [] this.cls = "RationalFunction" -> RationalMultiply(this, other)
      [] this.cls = "ConstantBaseExpFunction" -> ExpMultiply(this, other)
      [] OTHER -> MultiplyFunction(this, other)

(* this.divide(other), by the class of this *)
DivideMethod(this, other) ==
    CASE this.cls = "Polynomial" -> PolynomialDivide(this, other)
      [] this.cls = "RationalFunction" -> RationalDivide(this, other)
      [] this.cls = "ConstantBaseExpFunction" -> ExpDivide(this, other)
      [] OTHER -> DivideFunction(this, other)

(* a variant that divides the constant terms instead of the leading coefficients *)
ConvergeRationalByConstantTerms(num, den) ==
    LET numDegree == Len(num) - 1
        denDegree == Len(den) - 1
        ratio == NumDiv(num[1], den[1])
    IN  IF numDegree < denDegree THEN Converge(Zero, Polynomial)
        ELSE IF numDegree = denDegree THEN Converge(ratio, Polynomial)
        ELSE Diverge(NumMul(Infinity, MathSign(ratio)), Polynomial)

(* converge, RationalFunction of two Polynomials: compare degrees *)
ConvergeRationalOfPolynomials(num, den) ==
    LET numDegree == Len(num) - 1
        denDegree == Len(den) - 1
        ratio == NumDiv(num[numDegree + 1], den[denDegree + 1])
    IN  IF numDegree < denDegree THEN Converge(Zero, Polynomial)
        ELSE IF numDegree = denDegree THEN Converge(ratio, Polynomial)
        ELSE Diverge(NumMul(Infinity, MathSign(ratio)), Polynomial)

(* converge, RationalFunction with a nested RationalFunction: combine the two limits *)
ConvergeNestedRational(numeratorLimit, denominatorLimit) ==
    IF numeratorLimit.converges /\ denominatorLimit.converges
    THEN (IF StrictEq(denominatorLimit.limit, Zero) THEN DivergeIndeterminant
          ELSE Converge(NumDiv(numeratorLimit.limit, denominatorLimit.limit),
                        Polynomial))
    ELSE IF numeratorLimit.converges /\ ~denominatorLimit.converges
    THEN (IF Get(denominatorLimit, "divergeTo") # Undefined
          THEN Converge(Zero, Polynomial)
          ELSE DivergeIndeterminant)
    ELSE IF ~numeratorLimit.converges /\ denominatorLimit.converges
    THEN (IF StrictEq(denominatorLimit.limit, Zero) THEN DivergeIndeterminant
          ELSE IF Get(numeratorLimit, "divergeTo") # Undefined
          THEN Diverge(numeratorLimit.divergeTo, GrowthOr(numeratorLimit))
          ELSE DivergeIndeterminant)
    ELSE DivergeIndeterminant

(* a variant that ignores the sign of the leading coefficient *)
ConvergePolynomialUnsigned(coefficients) ==
    LET degree == Len(coefficients) - 1
    IN  IF degree <= 0 THEN Converge(coefficients[1], Polynomial)
        ELSE Diverge(Infinity, Polynomial)

(* converge, Polynomial *)
ConvergePolynomial(coefficients) ==
    LET degree == Len(coefficients) - 1
    IN  IF degree <= 0 THEN Converge(coefficients[1], Polynomial)
        ELSE Diverge(NumMul(Infinity, MathSign(coefficients[degree + 1])), Polynomial)

(* a variant that ignores the sign of the exponent's divergence *)
ConvergeConstantBaseExpUnsigned(base, exponentConverge) ==
    LET absBase == Num(Abs(base.n), base.d)
        divergeTo == Get(exponentConverge, "divergeTo")
    IN  IF exponentConverge.converges /\ Get(exponentConverge, "limit") # Undefined
        THEN Converge(MathPow(base, exponentConverge.limit), Exponential)
        ELSE IF ~exponentConverge.converges /\ divergeTo # Undefined
        THEN (IF NumLt(One, absBase)
              THEN (IF NumLt(base, Zero) THEN DivergeIndeterminant
                    ELSE Diverge(Infinity, Exponential))
              ELSE IF StrictEq(absBase, One)
              THEN (IF StrictEq(base, One) THEN Converge(One, Exponential)
                    ELSE DivergeIndeterminant)
              ELSE Converge(Zero, Exponential))
        ELSE DivergeIndeterminant

(* converge, ConstantBaseExpFunction, given the exponent's result *)
ConvergeConstantBaseExp(base, exponentConverge) ==
    LET absBase == Num(Abs(base.n), base.d)
        divergeTo == Get(exponentConverge, "divergeTo")
    IN  IF exponentConverge.converges /\ Get(exponentConverge, "limit") # Undefined
        THEN Converge(MathPow(base, exponentConverge.limit), Exponential)
        ELSE IF ~exponentConverge.converges /\ divergeTo # Undefined
                /\ StrictEq(divergeTo, Infinity)
        THEN (IF NumLt(One, absBase)
              THEN (IF NumLt(base, Zero) THEN DivergeIndeterminant
                    ELSE Diverge(Infinity, Exponential))
              ELSE IF StrictEq(absBase, One)
              THEN (IF StrictEq(base, One) THEN Converge(One, Exponential)
                    ELSE DivergeIndeterminant)
              ELSE Converge(Zero, Exponential))
        ELSE IF ~exponentConverge.converges /\ divergeTo # Undefined
                /\ StrictEq(divergeTo, NegInfinity)
        THEN (IF NumLt(One, absBase) THEN Converge(Zero, Exponential)
              ELSE IF StrictEq(absBase, One)
              THEN (IF StrictEq(base, One) THEN Converge(One, Exponential)
                    ELSE DivergeIndeterminant)
              ELSE Diverge(Infinity, Exponential))
        ELSE DivergeIndeterminant

(* a variant that turns every non-finite value into a divergence to +Infinity *)
LogResultUnsigned(logValue) ==
    IF ~isFinite(logValue) THEN Diverge(Infinity, Logarithmic)
    ELSE Converge(logValue, Logarithmic)

(* the two logarithm branches: a non-finite value becomes a signed divergence *)
LogResult(logValue) ==
    IF ~isFinite(logValue)
    THEN (IF StrictEq(logValue, NegInfinity) THEN Diverge(NegInfinity, Logarithmic)
          ELSE Diverge(Infinity, Logarithmic))
    ELSE Converge(logValue, Logarithmic)

(* converge, transcendental wrappers: the rules after the test for an     *)
(* indeterminate argument                                                 *)
ConvergeWrapperRules(f, argConverge) ==
    LET divergeTo == Get(argConverge, "divergeTo")
        limit == Get(argConverge, "limit")
    IN  IF argConverge.converges /\ f.cls # "TanFunction"
        THEN CASE f.cls = "EExpFunction" -> Converge(MathExp(limit), Exponential)
               [] f.cls = "LogFunction" ->
                    LogResult(NumDiv(MathLog(limit), MathLog(f.base)))
               [] f.cls = "LnFunction" -> LogResult(MathLog(limit))
               [] f.cls = "SinFunction" -> Converge(MathSin(limit), Polynomial)
               [] f.cls = "CosFunction" -> Converge(MathCos(limit), Polynomial)
               [] f.cls = "SqrtFunction" ->
                    IF ~NumLt(limit, Zero) /\ ~IsNaN(limit)
                    THEN Converge(MathSqrt(limit), Polynomial)
                    ELSE DivergeIndeterminant
        ELSE IF divergeTo # Undefined /\ f.cls # "TanFunction"
        THEN CASE f.cls = "EExpFunction" ->
                    IF NumLt(Zero, divergeTo) THEN Diverge(Infinity, Exponential)
                    ELSE Converge(Zero, Exponential)
               [] f.cls \in {"LnFunction", "LogFunction"} ->
                    IF NumLt(Zero, divergeTo) THEN Diverge(Infinity, Logarithmic)
                    ELSE DivergeIndeterminant
               [] f.cls \in {"SinFunction", "CosFunction"} -> DivergeIndeterminant
               [] f.cls = "SqrtFunction" ->
                    IF NumLt(Zero, divergeTo) THEN Diverge(Infinity, Polynomial)
                    ELSE DivergeIndeterminant
        ELSE IF f.cls = "TanFunction" THEN Thrown(TanNotSupported)
        ELSE DivergeIndeterminant

(* converge, transcendental wrappers, given the argument's result *)
ConvergeWrapper(f, argConverge) ==
    IF argConverge.converges = FALSE /\ ~Truthy(Get(argConverge, "divergeTo"))
    THEN DivergeIndeterminant
    ELSE ConvergeWrapperRules(f, argConverge)

(* a variant in which the left of two divergent terms always dominates *)
ConvergeAddLeftDominates(leftConverge, rightConverge) ==
    IF leftConverge.converges /\ rightConverge.converges
    THEN Converge(NumAdd(leftConverge.limit, rightConverge.limit), Polynomial)
    ELSE IF leftConverge.converges
    THEN (IF Get(rightConverge, "divergeTo") # Undefined
          THEN Diverge(rightConverge.divergeTo, GrowthOr(rightConverge))
          ELSE DivergeIndeterminant)
    ELSE IF Get(leftConverge, "divergeTo") # Undefined
            /\ (rightConverge.converges \/ Get(rightConverge, "divergeTo") # Undefined)
    THEN Diverge(leftConverge.divergeTo, GrowthOr(leftConverge))
    ELSE DivergeIndeterminant

(* converge, AddFunction, given both operands' results *)
ConvergeAdd(leftConverge, rightConverge) ==
    LET leftTo == Get(leftConverge, "divergeTo")
        rightTo == Get(rightConverge, "divergeTo")
        leftGrowth == GrowthOr(leftConverge)
        rightGrowth == GrowthOr(rightConverge)
    IN  IF leftConverge.converges /\ rightConverge.converges
        THEN Converge(NumAdd(leftConverge.limit, rightConverge.limit), Polynomial)
        ELSE IF leftConverge.converges /\ ~rightConverge.converges
        THEN (IF rightTo # Undefined THEN Diverge(rightTo, rightGrowth)
              ELSE DivergeIndeterminant)
        ELSE IF rightConverge.converges /\ ~leftConverge.converges
        THEN (IF leftTo # Undefined THEN Diverge(leftTo, leftGrowth)
              ELSE DivergeIndeterminant)
        ELSE IF leftTo # Undefined /\ rightTo # Undefined
        THEN (IF leftGrowth < rightGrowth THEN Diverge(leftTo, leftGrowth)
              ELSE IF rightGrowth < leftGrowth THEN Diverge(rightTo, rightGrowth)
              ELSE IF StrictEq(MathSign(leftTo), MathSign(rightTo))
              THEN Diverge(leftTo, leftGrowth)
              ELSE DivergeIndeterminant)
        ELSE DivergeIndeterminant

(* a variant that resolves a product only when both factors converge *)
ConvergeMultiplyOfLimits(leftConverge, rightConverge) ==
    IF leftConverge.converges /\ rightConverge.converges
    THEN Converge(NumMul(leftConverge.limit, rightConverge.limit), Polynomial)
    ELSE DivergeIndeterminant

(* converge, MultiplyFunction, given both operands' results *)
ConvergeMultiply(leftConverge, rightConverge) ==
    LET leftTo == Get(leftConverge, "divergeTo")
        rightTo == Get(rightConverge, "divergeTo")
        leftLimit == Get(leftConverge, "limit")
        rightLimit == Get(rightConverge, "limit")
    IN  IF leftConverge.converges /\ rightConverge.converges
        THEN Converge(NumMul(leftLimit, rightLimit), Polynomial)
        ELSE IF leftConverge.converges /\ StrictEq(leftLimit, Zero)
                /\ ~rightConverge.converges /\ rightTo = Undefined
        THEN Converge(Zero, Polynomial)
        ELSE IF rightConverge.converges /\ StrictEq(rightLimit, Zero)
                /\ ~leftConverge.converges /\ leftTo = Undefined
        THEN Converge(Zero, Polynomial)
        ELSE IF leftConverge.converges /\ ~rightConverge.converges
                /\ rightTo # Undefined
        THEN (IF StrictEq(leftLimit, Zero) THEN DivergeIndeterminant
              ELSE Diverge(NumMul(NumMul(MathSign(leftLimit), MathSign(rightTo)),
                                  Infinity),
                           GrowthOr(rightConverge)))
        ELSE IF rightConverge.converges /\ ~leftConverge.converges
                /\ leftTo # Undefined
        THEN (IF StrictEq(rightLimit, Zero) THEN DivergeIndeterminant
              ELSE Diverge(NumMul(NumMul(MathSign(rightLimit), MathSign(leftTo)),
                                  Infinity),
                           GrowthOr(leftConverge)))
        ELSE IF ~leftConverge.converges /\ ~rightConverge.converges
                /\ leftTo # Undefined /\ rightTo # Undefined
        THEN Diverge(NumMul(NumMul(MathSign(leftTo), MathSign(rightTo)), Infinity),
                     Min2(GrowthOr(leftConverge), GrowthOr(rightConverge)))
        ELSE DivergeIndeterminant

(* converge, DivideFunction, given both operands' results *)
(* a variant without the rule for a bounded numerator over a divergent denominator *)
ConvergeDivideNoSqueeze(numeratorConverge, denominatorConverge) ==
    LET numTo == Get(numeratorConverge, "divergeTo")
        denTo == Get(denominatorConverge, "divergeTo")
        numGrowth == GrowthOr(numeratorConverge)
        denGrowth == GrowthOr(denominatorConverge)
    IN  IF numeratorConverge.converges /\ denominatorConverge.converges
        THEN (IF StrictEq(denominatorConverge.limit, Zero) THEN DivergeIndeterminant
              ELSE Converge(NumDiv(numeratorConverge.limit,
                                   denominatorConverge.limit), Polynomial))
        ELSE IF numeratorConverge.converges /\ ~denominatorConverge.converges
        THEN (IF denTo # Undefined THEN Converge(Zero, Polynomial)
              ELSE DivergeIndeterminant)
        ELSE IF ~numeratorConverge.converges /\ denominatorConverge.converges
        THEN (IF StrictEq(denominatorConverge.limit, Zero) THEN DivergeIndeterminant
              ELSE IF numTo # Undefined THEN Diverge(numTo, numGrowth)
              ELSE DivergeIndeterminant)
        ELSE IF numTo # Undefined /\ denTo # Undefined
        THEN (IF denGrowth < numGrowth THEN Converge(Zero, Polynomial)
              ELSE IF numGrowth < denGrowth
              THEN Diverge(NumMul(NumMul(MathSign(numTo), MathSign(denTo)), Infinity),
                           numGrowth)
              ELSE DivergeIndeterminant)
        ELSE DivergeIndeterminant

(* converge, DivideFunction, given both operands' results *)
ConvergeDivide(numeratorConverge, denominatorConverge) ==
    LET numTo == Get(numeratorConverge, "divergeTo")
        denTo == Get(denominatorConverge, "divergeTo")
        numGrowth == GrowthOr(numeratorConverge)
        denGrowth == GrowthOr(denominatorConverge)
    IN  IF numeratorConverge.converges /\ denominatorConverge.converges
        THEN (IF StrictEq(denominatorConverge.limit, Zero) THEN DivergeIndeterminant
              ELSE Converge(NumDiv(numeratorConverge.limit,
                                   denominatorConverge.limit), Polynomial))
        ELSE IF numeratorConverge.converges /\ ~denominatorConverge.converges
        THEN (IF denTo # Undefined THEN Converge(Zero, Polynomial)
              ELSE DivergeIndeterminant)
        ELSE IF ~numeratorConverge.converges /\ denominatorConverge.converges
        THEN (IF StrictEq(denominatorConverge.limit, Zero) THEN DivergeIndeterminant
              ELSE IF numTo # Undefined THEN Diverge(numTo, numGrowth)
              ELSE DivergeIndeterminant)
        ELSE IF numTo # Undefined /\ denTo # Undefined
        THEN (IF denGrowth < numGrowth THEN Converge(Zero, Polynomial)
              ELSE IF numGrowth < denGrowth
              THEN Diverge(NumMul(NumMul(MathSign(numTo), MathSign(denTo)), Infinity),
                           numGrowth)
              ELSE DivergeIndeterminant)
        ELSE IF numTo = Undefined /\ denTo # Undefined
        THEN Converge(Zero, Polynomial)
        ELSE DivergeIndeterminant

(* the first thrown Error among the results of the recursive calls, in call order *)
FirstThrown(a, b) == IF IsThrown(a) THEN a ELSE b

(* converge: the chain of instanceof tests *)
ConvergeFunction(f) ==
    CASE f.cls = "RationalFunction" ->
           IF IsPolynomial(f.numerator) /\ IsPolynomial(f.denominator)
           THEN ConvergeRationalOfPolynomials(f.numerator.coefficients,
                                              f.denominator.coefficients)
           ELSE IF IsRational(f.numerator) \/ IsRational(f.denominator)
           THEN LET numeratorLimit == converge(f.numerator)
                    denominatorLimit == converge(f.denominator)
                IN  IF IsThrown(numeratorLimit) \/ IsThrown(denominatorLimit)
                    THEN FirstThrown(numeratorLimit, denominatorLimit)
                    ELSE ConvergeNestedRational(numeratorLimit, denominatorLimit)
           ELSE Thrown(RationalFailed)
      [] f.cls = "Polynomial" -> ConvergePolynomial(f.coefficients)
      [] f.cls = "ConstantBaseExpFunction" ->
           LET exponentConverge == converge(f.exponent)
           IN  IF IsThrown(exponentConverge) THEN exponentConverge
               ELSE ConvergeConstantBaseExp(f.base, exponentConverge)
      [] f.cls \in WrapperClasses ->
           LET argConverge == converge(f.argument)
           IN  IF IsThrown(argConverge) THEN argConverge
               ELSE ConvergeWrapper(f, argConverge)
      [] f.cls \in {"AddFunction", "MultiplyFunction"} ->
           LET leftConverge == converge(f.left)
               rightConverge == converge(f.right)
           IN  IF IsThrown(leftConverge) \/ IsThrown(rightConverge)
               THEN FirstThrown(leftConverge, rightConverge)
               ELSE IF f.cls = "AddFunction"
               THEN ConvergeAdd(leftConverge, rightConverge)
               ELSE ConvergeMultiply(leftConverge, rightConverge)
      [] f.cls = "DivideFunction" ->
           LET numeratorConverge == converge(f.numerator)
               denominatorConverge == converge(f.denominator)
           IN  IF IsThrown(numeratorConverge) \/ IsThrown(denominatorConverge)
               THEN FirstThrown(numeratorConverge, denominatorConverge)
               ELSE ConvergeDivide(numeratorConverge, denominatorConverge)
      [] OTHER -> DivergeIndeterminant

-----------------------------------------------------------------------------
(* Expression trees.  A name is the sequence of its characters. *)

NumericLiteral(value) == [type |-> "NumericLiteral", value |-> value]

Identifier(name) == [type |-> "Identifier", name |-> name]

UnaryExpression(operator, argument) ==
    [type |-> "UnaryExpression", operator |-> operator, argument |-> argument]

BinaryExpression(operator, left, right) ==
    [type |-> "BinaryExpression", operator |-> operator, left |-> left,
     right |-> right]

PowerExpression(base, exponent) ==
    [type |-> "PowerExpression", base |-> base, exponent |-> exponent]

FunctionCall(name, argument) ==
    [type |-> "FunctionCall", name |-> name, argument |-> argument]

UpperLetters ==
    <<"A", "B", "C", "D", "E", "F", "G", "H", "I", "J", "K", "L", "M",
      "N", "O", "P", "Q", "R", "S", "T", "U", "V", "W", "X", "Y", "Z">>

LowerLetters ==
    <<"a", "b", "c", "d", "e", "f", "g", "h", "i", "j", "k", "l", "m",
      "n", "o", "p", "q", "r", "s", "t", "u", "v", "w", "x", "y", "z">>

(* String.prototype.toLowerCase *)
toLowerCase(name) ==
    [i \in 1..Len(name) |->
        IF \E k \in 1..26 : UpperLetters[k] = name[i]
        THEN LowerLetters[CHOOSE k \in 1..26 : UpperLetters[k] = name[i]]
        ELSE name[i]]

(* the number of iterations of for(i = 0; i < v; i++), v finite or NaN *)
LoopCount(v) ==
    IF ~isFinite(v) \/ v.n <= 0 THEN 0 ELSE (v.n + v.d - 1) \div v.d

RECURSIVE RepeatMultiply(_, _, _)
(* result = result.multiply(baseFunc), count times *)
RepeatMultiply(res, baseFunc, count) ==
    IF count = 0 THEN res
    ELSE RepeatMultiply(multiply(res, baseFunc), baseFunc, count - 1)

(* parseFunction, FunctionCall: the switch on the lower-cased name *)
WrapCall(name, argument) ==
    LET lower == toLowerCase(name)
    IN  CASE lower = <<"s", "i", "n">> -> Wrapper("SinFunction", argument)
          [] lower = <<"c", "o", "s">> -> Wrapper("CosFunction", argument)
          [] lower = <<"t", "a", "n">> -> Wrapper("TanFunction", argument)
          [] lower = <<"l", "o", "g">> -> LogFunction(argument, Num(10, 1))
          [] lower = <<"l", "o", "g", "1", "0">> -> LogFunction(argument, Num(10, 1))
          [] lower = <<"l", "o", "g", "2">> -> LogFunction(argument, Num(2, 1))
          [] lower \in {<<"l", "n">>, <<"l", "o", "g", "_", "e">>} ->
               Wrapper("LnFunction", argument)
          [] lower \in {<<"s", "q", "r", "t">>, <<"s", "q", "r", "t", "2">>} ->
               Wrapper("SqrtFunction", argument)
          [] lower \in {<<"e", "x", "p">>, <<"e", "^">>} ->
               Wrapper("EExpFunction", argument)
          [] lower = <<"a", "b", "s">> -> argument
          [] OTHER -> [error |-> UnsupportedFunction, name |-> name]

(* parseFunction, PowerExpression *)
ParsePower(powExp) ==
    IF powExp.base.type = "NumericLiteral"
    THEN LET exponentFunc == parseFunction(powExp.exponent)
         IN  IF IsThrown(exponentFunc) THEN exponentFunc
             ELSE ConstantBaseExpFunction(powExp.base.value, exponentFunc)
    ELSE
    LET baseFunc == parseFunction(powExp.base)
        baseConverge == converge(baseFunc)
        exponentFunc == parseFunction(powExp.exponent)
        expValue == powExp.exponent.value
        power == RepeatMultiply(NewPolynomial(<<One>>), baseFunc,
                                LoopCount(Num(Abs(expValue.n), expValue.d)))
    IN  IF IsThrown(baseFunc) THEN baseFunc
        ELSE IF IsPolynomial(baseFunc) /\ Len(baseFunc.coefficients) = 1
        THEN (IF IsThrown(exponentFunc) THEN exponentFunc
              ELSE ConstantBaseExpFunction(baseFunc.coefficients[1], exponentFunc))
        ELSE IF IsRational(baseFunc) /\ IsThrown(baseConverge) THEN baseConverge
        ELSE IF IsRational(baseFunc) /\ baseConverge.converges
                /\ Get(baseConverge, "limit") # Undefined
        THEN (IF IsThrown(exponentFunc) THEN exponentFunc
              ELSE ConstantBaseExpFunction(baseConverge.limit, exponentFunc))
        ELSE IF powExp.exponent.type = "NumericLiteral"
        THEN (IF ~NumLt(expValue, Zero) /\ ~IsNaN(expValue) THEN power
              ELSE divide(NewPolynomial(<<One>>), power))
        ELSE Thrown(UnsupportedExponent)

(* parseFunction: the chain of tests on expr.type *)
TranslateExpression(e) ==
    CASE e.type = "BinaryExpression" /\ e.operator \in {"/", "+", "-", "*"} ->
           LET left == parseFunction(e.left)
               right == parseFunction(e.right)
           IN  IF IsThrown(left) THEN left
               ELSE IF IsThrown(right) THEN right
               ELSE IF e.operator = "/" THEN divide(left, right)
               ELSE IF e.operator = "+" THEN add(left, right)
               ELSE IF e.operator = "-" THEN add(left, multiply(right, MinusOne))
               ELSE multiply(left, right)
      [] e.type = "UnaryExpression" ->
           LET argFunc == parseFunction(e.argument)
           IN  IF IsThrown(argFunc) THEN argFunc
               ELSE IF e.operator = "-" THEN multiply(argFunc, MinusOne)
               ELSE argFunc
      [] e.type = "PowerExpression" -> ParsePower(e)
      [] e.type = "NumericLiteral" -> NewPolynomial(<<e.value>>)
      [] e.type = "Identifier" -> NewPolynomial(<<Zero, One>>)
      [] e.type = "FunctionCall" ->
           LET argument == parseFunction(e.argument)
           IN  IF IsThrown(argument) THEN argument
               ELSE WrapCall(e.name, argument)
      [] OTHER -> Thrown(UnsupportedExpression)

Invoke(method, this, other) ==
    CASE method = "add" -> AddMethod(this, other)
      [] method = "multiply" -> MultiplyMethod(this, other)
      [] method = "divide" -> DivideMethod(this, other)
      [] method = "converge" -> ConvergeFunction(this)
      [] method = "parseFunction" -> TranslateExpression(this)

-----------------------------------------------------------------------------
(* Tokenizer.  The input is a sequence of characters; positions count from *)
(* 0 as in the source.                                                      *)

Token(type, value, position) ==
    [type |-> type, value |-> value, position |-> position]

Digits == <<"0", "1", "2", "3", "4", "5", "6", "7", "8", "9">>

IsDigit(c) == \E k \in 1..10 : Digits[k] = c

DigitValue(c) == (CHOOSE k \in 1..10 : Digits[k] = c) - 1

IsLetter(c) ==
    c = "_" \/ \E k \in 1..26 : UpperLetters[k] = c \/ LowerLetters[k] = c

(* the character tests of skipWhitespace, readNumber and readIdentifier *)
CharIn(kind, c) ==
    CASE kind = "whitespace" -> c = " "
      [] kind = "number" -> IsDigit(c) \/ c = "."
      [] kind = "identifier" -> IsLetter(c)

RECURSIVE RunEnd(_, _, _)
(* the position after the run of characters of the kind starting at position *)
RunEnd(text, position, kind) ==
    IF position < Len(text) /\ CharIn(kind, text[position + 1])
    THEN RunEnd(text, position + 1, kind)
    ELSE position

(* Tokenizer.tokenize, the switch on the operator characters *)
OperatorType(c) ==
    CASE c = "+" -> "PLUS"
      [] c = "-" -> "MINUS"
      [] c = "*" -> "MULTIPLY"
      [] c = "/" -> "DIVIDE"
      [] c = "^" -> "POWER"
      [] c = "(" -> "LPAREN"
      [] c = ")" -> "RPAREN"
      [] OTHER -> "none"

RECURSIVE TokenizeFrom(_, _, _)
TokenizeFrom(text, position, toks) ==
    LET p == RunEnd(text, position, "whitespace")
        c == text[p + 1]
        q == RunEnd(text, p, IF IsDigit(c) THEN "number" ELSE "identifier")
    IN  IF p >= Len(text) THEN [tokens |-> Append(toks, Token("EOF", <<>>, p))]
        ELSE IF IsDigit(c)
        THEN TokenizeFrom(text, q,
                 Append(toks, Token("NUMBER", SubSeq(text, p + 1, q), p)))
        ELSE IF IsLetter(c)
        THEN TokenizeFrom(text, q,
                 Append(toks, Token("IDENTIFIER", SubSeq(text, p + 1, q), p)))
        ELSE IF OperatorType(c) # "none"
        THEN TokenizeFrom(text, p + 1, Append(toks, Token(OperatorType(c), <<c>>, p)))
        ELSE [error |-> "Unexpected character", char |-> c, position |-> p]

(* Tokenizer.tokenize *)
tokenize(text) == TokenizeFrom(text, 0, <<>>)

-----------------------------------------------------------------------------
(* The recursive-descent Parser.  The parser state is the index `current`  *)
(* (1-based here) into the token sequence; a parse function yields         *)
(* [expr, current], or a thrown Error.                                     *)

RECURSIVE ScanDigits(_, _, _, _)
(* <<value, count, next index>> of the run of digits of s starting at i *)
ScanDigits(s, i, acc, count) ==
    IF i <= Len(s) /\ IsDigit(s[i])
    THEN ScanDigits(s, i + 1, 10 * acc + DigitValue(s[i]), count + 1)
    ELSE <<acc, count, i>>

RECURSIVE Pow10(_)
Pow10(k) == IF k = 0 THEN 1 ELSE 10 * Pow10(k - 1)

(* parseFloat on a lexeme of digits and decimal points: the longest prefix *)
(* digits [. digits], NaN when that prefix has no digit                    *)
parseFloat(s) ==
    LET int == ScanDigits(s, 1, 0, 0)
        hasPoint == int[3] <= Len(s) /\ s[int[3]] = "."
        frac == IF hasPoint THEN ScanDigits(s, int[3] + 1, 0, 0) ELSE <<0, 0, 0>>
    IN  IF int[2] = 0 /\ frac[2] = 0 THEN NaN
        ELSE Frac(int[1] * Pow10(frac[2]) + frac[1], Pow10(frac[2]))

Parsed(e, current) == [expr |-> e, current |-> current]

(* Parser.isAtEnd *)
isAtEnd(toks, current) == toks[current].type = "EOF"

(* Parser.needsImplicitMultiply *)
needsImplicitMultiply(toks, current) ==
    IF current <= 1 THEN FALSE
    ELSE LET cur == toks[current].type
             previous == toks[current - 1].type
         IN  \/ previous = "NUMBER" /\ cur = "IDENTIFIER"
             \/ previous = "NUMBER" /\ cur = "LPAREN"
             \/ previous = "RPAREN" /\ cur = "NUMBER"
             \/ previous = "RPAREN" /\ cur = "IDENTIFIER"
             \/ previous = "RPAREN" /\ cur = "LPAREN"
             \/ previous = "IDENTIFIER" /\ cur = "LPAREN"

RECURSIVE ParserInvoke(_, _, _, _)

(* The calls this.parsePrimary(), this.parseUnary(), ... of the parser's    *)
(* methods on the state (tokens, current); ParserInvoke selects the code    *)
(* that runs.  The three loops carry the left operand built so far.         *)
parsePrimary(toks, current) == ParserInvoke("parsePrimary", toks, current, None)

parseUnary(toks, current) == ParserInvoke("parseUnary", toks, current, None)

parsePower(toks, current) == ParserInvoke("parsePower", toks, current, None)

parseImplicit(toks, current) == ParserInvoke("parseImplicit", toks, current, None)

parseAdditive(toks, current) == ParserInvoke("parseAdditive", toks, current, None)

parseExpression(toks, current) == ParserInvoke("parseExpression", toks, current, None)

ImplicitLoop(toks, left, current) == ParserInvoke("ImplicitLoop", toks, current, left)

AdditiveLoop(toks, left, current) == ParserInvoke("AdditiveLoop", toks, current, left)

ExpressionLoop(toks, left, current) ==
    ParserInvoke("ExpressionLoop", toks, current, left)

(* Parser.parsePrimary *)
Primary(toks, current) ==
    LET token == toks[current]
    IN  IF token.type = "NUMBER"
        THEN Parsed(NumericLiteral(parseFloat(token.value)), current + 1)
        ELSE IF token.type = "IDENTIFIER"
        THEN Parsed(Identifier(token.value), current + 1)
        ELSE IF token.type = "LPAREN"
        THEN LET inner == parseExpression(toks, current + 1)
             IN  IF IsThrown(inner) THEN inner
                 ELSE IF toks[inner.current].type # "RPAREN"
                 THEN [error |-> "Expected ')'", got |-> toks[inner.current].value]
                 ELSE Parsed(inner.expr, inner.current + 1)
        ELSE [error |-> "Unexpected token type", type |-> token.type,
              position |-> token.position]

(* Parser.parseUnary *)
Unary(toks, current) ==
    LET token == toks[current]
    IN  IF token.type \in {"MINUS", "PLUS"}
        THEN LET op == token.value
                 arg == parseUnary(toks, current + 1)
             IN  IF IsThrown(arg) THEN arg
                 ELSE IF arg.expr.type = "NumericLiteral"
                 THEN Parsed(NumericLiteral(IF op = <<"-">> THEN NumNeg(arg.expr.value)
                                            ELSE arg.expr.value), arg.current)
                 ELSE Parsed(UnaryExpression(op[1], arg.expr), arg.current)
        ELSE parsePrimary(toks, current)

(* Parser.parsePower *)
Power(toks, current) ==
    LET left == parseUnary(toks, current)
    IN  IF IsThrown(left) THEN left
        ELSE IF ~isAtEnd(toks, left.current) /\ toks[left.current].type = "POWER"
        THEN LET right == parsePower(toks, left.current + 1)
             IN  IF IsThrown(right) THEN right
                 ELSE Parsed(PowerExpression(left.expr, right.expr), right.current)
        ELSE left

(* Parser.parseImplicit: the loop while needsImplicitMultiply *)
ImplicitWhile(toks, left, current) ==
    IF ~isAtEnd(toks, current) /\ needsImplicitMultiply(toks, current)
    THEN LET right == parsePower(toks, current)
         IN  IF IsThrown(right) THEN right
             ELSE ImplicitLoop(toks, BinaryExpression("*", left, right.expr),
                               right.current)
    ELSE Parsed(left, current)

(* Parser.parseImplicit *)
Implicit(toks, current) ==
    LET left == parsePower(toks, current)
    IN  IF IsThrown(left) THEN left ELSE ImplicitLoop(toks, left.expr, left.current)

(* Parser.parseAdditive: the loop over PLUS and MINUS *)
AdditiveWhile(toks, left, current) ==
    IF ~isAtEnd(toks, current) /\ toks[current].type \in {"PLUS", "MINUS"}
    THEN LET right == parseImplicit(toks, current + 1)
         IN  IF IsThrown(right) THEN right
             ELSE AdditiveLoop(toks,
                      BinaryExpression(toks[current].value[1], left, right.expr),
                      right.current)
    ELSE Parsed(left, current)

(* Parser.parseAdditive *)
Additive(toks, current) ==
    LET left == parseImplicit(toks, current)
    IN  IF IsThrown(left) THEN left ELSE AdditiveLoop(toks, left.expr, left.current)

(* Parser.parseExpression: the loop over MULTIPLY and DIVIDE *)
ExpressionWhile(toks, left, current) ==
    IF ~isAtEnd(toks, current) /\ toks[current].type \in {"MULTIPLY", "DIVIDE"}
    THEN LET right == parseAdditive(toks, current + 1)
         IN  IF IsThrown(right) THEN right
             ELSE ExpressionLoop(toks,
                      BinaryExpression(toks[current].value[1], left, right.expr),
                      right.current)
    ELSE Parsed(left, current)

(* Parser.parseExpression *)
Expression(toks, current) ==
    LET left == parseAdditive(toks, current)
    IN  IF IsThrown(left) THEN left ELSE ExpressionLoop(toks, left.expr, left.current)

ParserInvoke(method, toks, current, left) ==
    CASE method = "parsePrimary" -> Primary(toks, current)
      [] method = "parseUnary" -> Unary(toks, current)
      [] method = "parsePower" -> Power(toks, current)
      [] method = "parseImplicit" -> Implicit(toks, current)
      [] method = "ImplicitLoop" -> ImplicitWhile(toks, left, current)
      [] method = "parseAdditive" -> Additive(toks, current)
      [] method = "AdditiveLoop" -> AdditiveWhile(toks, left, current)
      [] method = "parseExpression" -> Expression(toks, current)
      [] method = "ExpressionLoop" -> ExpressionWhile(toks, left, current)

(* Parser.parse *)
parse(toks) == parseExpression(toks, 1)

-----------------------------------------------------------------------------
(* Inputs: bounded families of expression trees *)

MaxLit == 2

MaxDegree == 2

n == Identifier(<<"n">>)

Lit(k) == NumericLiteral(Num(k, 1))

(* literal values: the integers and halves up to MaxLit in magnitude *)
LitValues == {Fit(k, d) : k \in (-MaxLit)..MaxLit, d \in {1, 2}}

Leaves == {n} \cup {NumericLiteral(v) : v \in LitValues}

Operators == {"+", "-", "*", "/"}

CallNames ==
    {<<"s", "i", "n">>, <<"c", "o", "s">>, <<"t", "a", "n">>, <<"l", "o", "g">>,
     <<"l", "n">>, <<"s", "q", "r", "t">>, <<"e", "x", "p">>, <<"a", "b", "s">>,
     <<"S", "i", "n">>, <<"f">>}

(* every tree of height one over the given operands *)
Over(S) ==
    {UnaryExpression(o, a) : o \in {"+", "-"}, a \in S}
    \cup {FunctionCall(f, a) : f \in CallNames, a \in S}
    \cup {BinaryExpression(o, a, b) : o \in Operators, a \in S, b \in S}
    \cup {PowerExpression(a, b) : a \in S, b \in S}

Level1 == Leaves \cup Over(Leaves)

(* coefficient lists c0, c1, ..., lowest power first, trailing zeros allowed *)
Coefs == {-1, 0, 2}

CoefLists == UNION {[1..len -> Coefs] : len \in 1..(MaxDegree + 1)}

RECURSIVE PolyExpr(_, _)
(* the tree c[1] + c[2]*n + c[3]*n^2 + ... up to the term of index i *)
PolyExpr(c, i) ==
    LET term == IF i = 1 THEN Lit(c[1])
                ELSE IF i = 2 THEN BinaryExpression("*", Lit(c[2]), n)
                ELSE BinaryExpression("*", Lit(c[i]), PowerExpression(n, Lit(i - 1)))
    IN  IF i = 1 THEN term ELSE BinaryExpression("+", PolyExpr(c, i - 1), term)

PolyExprs == {PolyExpr(c, Len(c)) : c \in CoefLists}

Quotients == {BinaryExpression("/", p, q) : p \in PolyExprs, q \in PolyExprs}

(* b^n for the literal bases *)
ExpTerms == {PowerExpression(NumericLiteral(b), n) : b \in LitValues}

ExpPolyProducts ==
    {BinaryExpression("*", p, e) : p \in PolyExprs, e \in ExpTerms}
    \cup {BinaryExpression("*", e, p) : p \in PolyExprs, e \in ExpTerms}

(* one representative of each kind of operand *)
Reps ==
    {n, Lit(0), Lit(1), Lit(-2),
     BinaryExpression("/", Lit(1), n),
     BinaryExpression("*", n, n),
     UnaryExpression("-", n),
     FunctionCall(<<"s", "i", "n">>, n),
     FunctionCall(<<"t", "a", "n">>, n),
     FunctionCall(<<"e", "x", "p">>, n),
     FunctionCall(<<"l", "n">>, n),
     FunctionCall(<<"s", "q", "r", "t">>, n),
     PowerExpression(Lit(2), n),
     PowerExpression(Lit(3), n),
     PowerExpression(NumericLiteral(Num(1, 2)), n),
     PowerExpression(Lit(2), FunctionCall(<<"t", "a", "n">>, n)),
     PowerExpression(Lit(2), FunctionCall(<<"s", "i", "n">>, n)),
     PowerExpression(Lit(3), FunctionCall(<<"c", "o", "s">>, n)),
     PowerExpression(Lit(2), BinaryExpression("/", Lit(1), n)),
     PowerExpression(Lit(3), BinaryExpression("/", Lit(1), n)),
     PowerExpression(Lit(3), UnaryExpression("-", n)),
     BinaryExpression("+", BinaryExpression("/", Lit(1), n),
                      FunctionCall(<<"s", "i", "n">>, n))}

Level2 ==
    {FunctionCall(f, a) : f \in CallNames, a \in Level1}
    \cup {BinaryExpression(o, a, a) : o \in Operators, a \in Level1}
    \cup Over(Reps)

Call(name, a) == FunctionCall(name, a)

Quotient(a, b) == BinaryExpression("/", a, b)

Sum(a, b) == BinaryExpression("+", a, b)

sin(a) == Call(<<"s", "i", "n">>, a)

cos(a) == Call(<<"c", "o", "s">>, a)

ln(a) == Call(<<"l", "n">>, a)

sqrt(a) == Call(<<"s", "q", "r", "t">>, a)

nSquared == PowerExpression(n, Lit(2))

(* the literal values b with |b| > 1 *)
GrowthBases == {b \in LitValues : NumLt(One, Num(Abs(b.n), b.d))}

(* n^2 / b^n and b^n / n^2 *)
PolyOverExp == {Quotient(nSquared, PowerExpression(NumericLiteral(b), n)) : b \in GrowthBases}

ExpOverPoly == {Quotient(PowerExpression(NumericLiteral(b), n), nSquared) : b \in GrowthBases}

(* bounded oscillating numerators and divergent denominators *)
Oscillating ==
    {sin(n), cos(n), Sum(sin(n), cos(n)), BinaryExpression("-", sin(n), cos(n))}

Divergent ==
    {n, UnaryExpression("-", n), nSquared, PowerExpression(Lit(2), n), ln(n), sqrt(n),
     Call(<<"e", "x", "p">>, n)}

OscillatingQuotients == {Quotient(a, b) : a \in Oscillating, b \in Divergent}

(* (a^n + P) / (b^n + Q) over the bases 3/2, 2, 3 and the terms n and 1 *)
MixedBases == {Num(3, 2), Num(2, 1), Num(3, 1)}

MixedSum(b, p) == Sum(PowerExpression(NumericLiteral(b), n), p)

MixedQuotients ==
    {Quotient(MixedSum(a, p), MixedSum(b, q)) :
        a \in MixedBases, b \in MixedBases, p \in {n, Lit(1)}, q \in {n, Lit(1)}}

(* b^f for an exponent f that diverges to -Infinity or oscillates *)
ExpOfOther ==
    {PowerExpression(NumericLiteral(b), f) :
        b \in LitValues, f \in {UnaryExpression("-", n), sin(n)}}

GrowthCases ==
    PolyOverExp \cup ExpOverPoly \cup Oscillating \cup OscillatingQuotients
        \cup MixedQuotients \cup ExpOfOther
        \cup {Quotient(ln(Sum(n, Lit(1))), ln(n)), Quotient(sqrt(n), n),
              Quotient(n, sqrt(n))}

(* ((1/n) * f) / (p/q): a quotient of two quotients, RationalFunction.divide *)
(* of a RationalFunction                                                     *)
NestedQuotients ==
    {Quotient(BinaryExpression("*", Quotient(Lit(1), n), f), Quotient(p, q)) :
        f \in {Lit(1), n, sin(n), PowerExpression(Lit(2), n)},
        p \in {n, Lit(1)}, q \in {n, Lit(1)}}

Inputs ==
    Level1 \cup Level2 \cup PolyExprs \cup Quotients \cup ExpPolyProducts
        \cup GrowthCases \cup NestedQuotients

-----------------------------------------------------------------------------
(* Inputs: bounded families of input texts *)

MaxText == 3

Alphabet == {"2", "n", ".", "+", "-", "*", "/", "^", "(", ")", " ", "?"}

(* every text of at most MaxText characters *)
ShortTexts == UNION {[1..len -> Alphabet] : len \in 0..MaxText}

OperandTexts == {<<"2">>, <<"3">>, <<"n">>}

(* x o1 y o2 z over the four explicit operators *)
TwoOperatorTexts ==
    {x \o <<o1>> \o y \o <<o2>> \o z :
        x \in OperandTexts, y \in OperandTexts, z \in OperandTexts,
        o1 \in Operators, o2 \in Operators}

(* "(n^2 + 3*n + 1)/(2*n^2 + n)" *)
ComplexQuotientHalf ==
    <<"(", "n", "^", "2", " ", "+", " ", "3", "*", "n", " ", "+", " ", "1", ")",
      "/", "(", "2", "*", "n", "^", "2", " ", "+", " ", "n", ")">>

(* "(5*n^3 - n)/(n^3 + 2*n^2)" *)
ComplexQuotientFive ==
    <<"(", "5", "*", "n", "^", "3", " ", "-", " ", "n", ")", "/",
      "(", "n", "^", "3", " ", "+", " ", "2", "*", "n", "^", "2", ")">>

(* further sequences of the test suite *)
TestTexts ==
    {ComplexQuotientHalf, ComplexQuotientFive,
     <<"n", "*", "0", ".", "5", "^", "n">>,
     <<"(", "2", "*", "n", " ", "+", " ", "1", ")", "*", "0", ".", "5", "^", "n">>,
     <<"(", "2", "*", "n", " ", "+", " ", "1", ")", "/", "(", "3", "*", "n", " ", "+",
       " ", "2", ")">>,
     <<"s", "i", "n", "(", "n", ")">>,
     <<"1", "/", "n">>, <<"5">>, <<"0">>, <<"1", ".", "2", ".", "3">>}

(* juxtapositions of a number, an identifier and a parenthesized expression, *)
(* alone and beside ^, * and /                                              *)
JuxtapositionTexts ==
    {<<"2", "n">>, <<"2", "(", "n", ")">>, <<"n", "(", "n", ")">>, <<"n", " ", "n">>,
     <<"(", "n", ")", "n">>, <<"(", "n", ")", "(", "n", ")">>, <<"(", "n", ")", "2">>,
     <<"2", " ", "2">>, <<"n", " ", "2">>,
     <<"2", "n", "^", "2">>, <<"2", "^", "2", "n">>, <<"2", "/", "2", "n">>,
     <<"2", "n", "/", "2">>, <<"2", "*", "2", "n">>}

(* the function names of parseFunction's switch *)
ReservedNames ==
    {<<"s", "i", "n">>, <<"c", "o", "s">>, <<"t", "a", "n">>, <<"l", "o", "g">>,
     <<"l", "o", "g", "1", "0">>, <<"l", "o", "g", "2">>, <<"l", "n">>,
     <<"l", "o", "g", "_", "e">>, <<"s", "q", "r", "t">>, <<"s", "q", "r", "t", "2">>,
     <<"e", "x", "p">>, <<"e", "^">>, <<"a", "b", "s">>}

(* name(n) for the reserved names, one of them capitalised, and for the    *)
(* name f that is not reserved                                             *)
CallText(name) == name \o <<"(", "n", ")">>

CallTexts == {CallText(name) : name \in ReservedNames \cup {<<"S", "i", "n">>, <<"f">>}}

Texts ==
    ShortTexts \cup TwoOperatorTexts \cup TestTexts \cup JuxtapositionTexts
        \cup CallTexts

-----------------------------------------------------------------------------
(* Inputs: BaseFunction instances, the translations of the representatives *)

Functions ==
    {parseFunction(e) : e \in {r \in Reps \cup Leaves : ~IsThrown(parseFunction(r))}}

-----------------------------------------------------------------------------
(* The pipeline on an expression tree: parseFunction, then converge *)

Init ==
    /\ pc = "start"
    /\ expr \in Inputs
    /\ input = None
    /\ tokens = None
    /\ operand = None
    /\ func = None
    /\ result = None

(* the outcome f of building a BaseFunction: the function, or a thrown Error *)
Built(f, failed) ==
    /\ IF IsThrown(f)
       THEN /\ pc' = failed
            /\ result' = f
            /\ func' = func
       ELSE /\ pc' = "translated"
            /\ func' = f
            /\ result' = result
    /\ UNCHANGED <<input, tokens, expr, operand>>

(* const func = parseFunction(ast) *)
Translate == pc = "start" /\ Built(parseFunction(expr), "translateFailed")

(* the outcome r of converge: a ConvergenceResult, or a thrown Error *)
Evaluated(r) ==
    /\ result' = r
    /\ pc' = IF IsThrown(r) THEN "evaluateFailed" ELSE "done"
    /\ UNCHANGED <<input, tokens, expr, operand, func>>

(* const result = converge(func) *)
Evaluate == pc = "translated" /\ Evaluated(converge(func))

Next == Translate \/ Evaluate

Spec == Init /\ [][Next]_vars

-----------------------------------------------------------------------------
(* The pipeline on an input text: tokenize, parse, parseFunction, converge *)

TextInit ==
    /\ pc = "input"
    /\ input \in Texts
    /\ tokens = None
    /\ expr = None
    /\ operand = None
    /\ func = None
    /\ result = None

(* const tokens = new Tokenizer(input).tokenize() *)
Tokenized(t) ==
    /\ IF IsThrown(t)
       THEN /\ pc' = "tokenizeFailed"
            /\ result' = t
            /\ tokens' = tokens
       ELSE /\ pc' = "tokenized"
            /\ tokens' = t.tokens
            /\ result' = result
    /\ UNCHANGED <<input, expr, operand, func>>

Tokenize == pc = "input" /\ Tokenized(tokenize(input))

(* const ast = new Parser(tokens).parse() *)
ParsedAs(p) ==
    /\ IF IsThrown(p)
       THEN /\ pc' = "parseFailed"
            /\ result' = p
            /\ expr' = expr
       ELSE /\ pc' = "start"
            /\ expr' = p.expr
            /\ result' = result
    /\ UNCHANGED <<input, tokens, operand, func>>

Parse == pc = "tokenized" /\ ParsedAs(parse(tokens))

TextNext == Tokenize \/ Parse \/ Translate \/ Evaluate

TextSpec == TextInit /\ [][TextNext]_vars

-----------------------------------------------------------------------------
(* The combinators on two BaseFunction instances: this.add(other),         *)
(* this.multiply(other), this.divide(other), then converge on the outcome  *)

AlgebraInit ==
    /\ pc = "operands"
    /\ operand \in [this : Functions, other : Functions]
    /\ input = None
    /\ tokens = None
    /\ expr = None
    /\ func = None
    /\ result = None

Add == pc = "operands" /\ Built(add(operand.this, operand.other), "combineFailed")

Multiply ==
    pc = "operands" /\ Built(multiply(operand.this, operand.other), "combineFailed")

Divide ==
    pc = "operands" /\ Built(divide(operand.this, operand.other), "combineFailed")

AlgebraNext == Add \/ Multiply \/ Divide \/ Evaluate

AlgebraSpec == AlgebraInit /\ [][AlgebraNext]_vars

-----------------------------------------------------------------------------
(* Properties.  Under Spec, func holds a BaseFunction once pc is "done" or  *)
(* "evaluateFailed", and result then holds what converge returned or threw. *)

HasEvaluated == pc \in {"done", "evaluateFailed"}

Finished == pc \in {"translateFailed", "done", "evaluateFailed"}

(* the three well-formed states of a ConvergenceResult *)
WellFormed(r) ==
    \/ /\ r.converges
       /\ "limit" \in DOMAIN r
       /\ IsNum(r.limit) /\ isFinite(r.limit)
       /\ "divergeTo" \notin DOMAIN r
    \/ /\ ~r.converges
       /\ "divergeTo" \in DOMAIN r
       /\ r.divergeTo \in {Infinity, NegInfinity}
    \/ /\ ~r.converges
       /\ "divergeTo" \notin DOMAIN r

(* C1: every result that converge returns is well formed: converges with a *)
(* finite limit and no divergeTo, or does not converge with divergeTo      *)
(* +Infinity or -Infinity, or does not converge with divergeTo absent.     *)
C1_ResultWellFormed == pc = "done" => WellFormed(result)

(* e / 0 for a leaf e: a number or n *)
IsLeafOverZero(e) ==
    /\ e.type = "BinaryExpression"
    /\ e.operator = "/"
    /\ e.left \in Leaves
    /\ e.right = Lit(0)

(* C2: a division of a number or of n by the constant 0 is evaluated       *)
(* without an error and its result is DivergesIndeterminate.               *)
C2_DivisionByZeroIndeterminate ==
    (Finished /\ IsLeafOverZero(expr)) =>
        (pc = "done" /\ result = DivergeIndeterminant)

(* the literal values b with 0 < |b| < 1 *)
DecayBases ==
    {b \in LitValues : NumLt(Zero, Num(Abs(b.n), b.d)) /\ NumLt(Num(Abs(b.n), b.d), One)}

(* P * b^n for a polynomial P and a base b with 0 < |b| < 1 *)
DecayProducts ==
    {BinaryExpression("*", p, PowerExpression(NumericLiteral(b), n)) :
        p \in PolyExprs, b \in DecayBases}

(* C3: for every polynomial P and every constant b with 0 < |b| < 1,       *)
(* translating and evaluating P * b^n yields Converges(0, Exponential).    *)
C3_PolynomialTimesDecay ==
    (Finished /\ expr \in DecayProducts) =>
        (pc = "done" /\ result = Converge(Zero, Exponential))

(* E - E: a subtraction whose two operands are the same tree *)
IsSelfDifference(e) ==
    e.type = "BinaryExpression" /\ e.operator = "-" /\ e.left = e.right

(* C4: for every expression E, whenever parseFunction and converge yield a *)
(* result for E - E, that result is Converges with limit 0.                *)
C4_SelfCancellation ==
    (pc = "done" /\ IsSelfDifference(expr)) =>
        (result.converges /\ result.limit = Zero)

(* C5: add, multiply and divide applied to two BaseFunction instances      *)
(* never raise, and each returns a BaseFunction (checked under AlgebraSpec).*)
C5_CombinatorsNeverRaise ==
    /\ pc # "combineFailed"
    /\ pc = "translated" => "cls" \in DOMAIN func

(* C6: converge applied to a Tan wrapper never returns a result: it fails  *)
(* with the tangent error whatever the argument is.                        *)
C6_TanAlwaysFails ==
    (pc = "done" => func.cls # "TanFunction")
    /\ ((pc = "evaluateFailed" /\ func.cls = "TanFunction"
         /\ ~IsThrown(converge(func.argument)))
            => result = Thrown(TanNotSupported))

(* C7: the tangent error is the only error converge raises on a function   *)
(* that parseFunction produced.                                            *)
C7_OnlyTanErrorRaised ==
    pc = "evaluateFailed" => result = Thrown(TanNotSupported)

(* the quotient of two Polynomials *)
IsRationalOfPolynomials(f) ==
    IsRational(f) /\ IsPolynomial(f.numerator) /\ IsPolynomial(f.denominator)

(* the result the degree law gives for coefficient lists num and den *)
DegreeLaw(num, den, ratio) ==
    IF Len(num) < Len(den) THEN Converge(Zero, Polynomial)
    ELSE IF Len(num) = Len(den) THEN Converge(ratio, Polynomial)
    ELSE Diverge(IF NumLt(Zero, ratio) THEN Infinity ELSE NegInfinity, Polynomial)

(* C8: for a RationalFunction of two Polynomials of degrees a and b,       *)
(* converge returns Converges(0, Polynomial) when a < b, Converges(ratio   *)
(* of the leading coefficients, Polynomial) when a = b, and a divergence   *)
(* to infinity with the sign of that ratio, growth Polynomial, when a > b. *)
C8_DegreeLaw ==
    (HasEvaluated /\ IsRationalOfPolynomials(func)) =>
        /\ pc = "done"
        /\ result =
             DegreeLaw(func.numerator.coefficients, func.denominator.coefficients,
                 NumDiv(func.numerator.coefficients[Len(func.numerator.coefficients)],
                        func.denominator.coefficients[Len(func.denominator.coefficients)]))

(* C8, witness: a quotient with the larger degree above and a negative     *)
(* ratio of leading coefficients has diverged to -Infinity.                *)
C8_Witness ==
    /\ pc = "done"
    /\ IsRationalOfPolynomials(func)
    /\ Len(func.numerator.coefficients) = Len(func.denominator.coefficients) + 1
    /\ Len(func.denominator.coefficients) > 1
    /\ result = Diverge(NegInfinity, Polynomial)

(* C9: converge on a Polynomial of degree 0 returns Converges(coefficient  *)
(* 0, Polynomial) and on one of degree > 0 a divergence to infinity with   *)
(* the sign of the leading coefficient, growth Polynomial; a numeric       *)
(* literal k translates and evaluates to Converges(k, Polynomial).         *)
C9_PolynomialLimit ==
    /\ (HasEvaluated /\ IsPolynomial(func)) =>
          /\ pc = "done"
          /\ Len(func.coefficients) = 1 =>
                result = Converge(func.coefficients[1], Polynomial)
          /\ Len(func.coefficients) > 1 =>
                result = Diverge(IF func.coefficients[Len(func.coefficients)].n > 0
                                 THEN Infinity ELSE NegInfinity, Polynomial)
    /\ (Finished /\ expr.type = "NumericLiteral") =>
          (pc = "done" /\ result = Converge(expr.value, Polynomial))

(* C9, witness: a polynomial of degree 2 with a negative leading           *)
(* coefficient has diverged to -Infinity.                                  *)
C9_Witness ==
    /\ pc = "done"
    /\ IsPolynomial(func)
    /\ Len(func.coefficients) = 3
    /\ func.coefficients[3].n < 0
    /\ result = Diverge(NegInfinity, Polynomial)

(* the operand a one-character text stands for *)
OperandOf(c) == IF c = "n" THEN n ELSE Lit(DigitValue(c))

(* x o1 y o2 z grouped with * and / binding tighter than + and -, and      *)
(* operators of one level grouped from the left                            *)
Grouped(text) ==
    IF text[2] \in {"+", "-"} /\ text[4] \in {"*", "/"}
    THEN BinaryExpression(text[2], OperandOf(text[1]),
             BinaryExpression(text[4], OperandOf(text[3]), OperandOf(text[5])))
    ELSE BinaryExpression(text[4],
             BinaryExpression(text[2], OperandOf(text[1]), OperandOf(text[3])),
             OperandOf(text[5]))

(* C10: the parser groups x o1 y o2 z with * and / binding tighter than +  *)
(* and -, each level from the left; (n^2 + 3*n + 1)/(2*n^2 + n) evaluates  *)
(* to a limit of 0.5 and (5*n^3 - n)/(n^3 + 2*n^2) to a limit of 5         *)
(* (checked under TextSpec).                                               *)
C10_MultiplicativeBindsTighter ==
    /\ (pc = "start" /\ input \in TwoOperatorTexts) => expr = Grouped(input)
    /\ (pc = "done" /\ input = ComplexQuotientHalf) =>
          (result.converges /\ result.limit = Num(1, 2))
    /\ (pc = "done" /\ input = ComplexQuotientFive) =>
          (result.converges /\ result.limit = Num(5, 1))

(* the tokens that Parser.parse has consumed when it returns: its index    *)
(* `current` stands on the end marker                                      *)
ConsumesAllTokens(toks) == parse(toks).current = Len(toks)

(* C11: when Parser.parse returns a tree for a token stream ending in the  *)
(* end marker, the tree is built from all tokens before the end marker: a  *)
(* surplus ')' or tokens left over after a complete expression, as in      *)
(* "n n" or "2 2", make it fail (checked under TextSpec).                  *)
C11_ParseConsumesAllTokens ==
    pc \in {"start", "translated", "translateFailed", "done", "evaluateFailed"}
        => ConsumesAllTokens(tokens)

Times(a, b) == BinaryExpression("*", a, b)

(* the trees of the juxtapositions: a product at each junction, binding    *)
(* tighter than * and / and looser than ^                                  *)
ImplicitCases ==
    {[text |-> <<"2", "n">>, tree |-> Times(Lit(2), n)],
     [text |-> <<"2", "(", "n", ")">>, tree |-> Times(Lit(2), n)],
     [text |-> <<"n", "(", "n", ")">>, tree |-> Times(n, n)],
     [text |-> <<"n", " ", "n">>, tree |-> Times(n, n)],
     [text |-> <<"(", "n", ")", "n">>, tree |-> Times(n, n)],
     [text |-> <<"(", "n", ")", "(", "n", ")">>, tree |-> Times(n, n)],
     [text |-> <<"(", "n", ")", "2">>, tree |-> Times(n, Lit(2))],
     [text |-> <<"2", "n", "^", "2">>, tree |-> Times(Lit(2), PowerExpression(n, Lit(2)))],
     [text |-> <<"2", "^", "2", "n">>, tree |-> Times(PowerExpression(Lit(2), Lit(2)), n)],
     [text |-> <<"2", "/", "2", "n">>,
      tree |-> BinaryExpression("/", Lit(2), Times(Lit(2), n))],
     [text |-> <<"2", "n", "/", "2">>,
      tree |-> BinaryExpression("/", Times(Lit(2), n), Lit(2))],
     [text |-> <<"2", "*", "2", "n">>, tree |-> Times(Lit(2), Times(Lit(2), n))]}

(* a number after a number or after an identifier: no junction *)
NoJunctionTexts == {<<"2", " ", "2">>, <<"n", " ", "2">>}

IsProduct(e) == e.type = "BinaryExpression" /\ e.operator = "*"

(* C12: the parser inserts a multiplication exactly where a number, an     *)
(* identifier or a parenthesized expression is followed by an identifier   *)
(* or a parenthesized expression, and where a ')' is followed by a number, *)
(* an identifier or a parenthesized expression; the product binds tighter  *)
(* than * and / and looser than ^ (checked under TextSpec).                *)
C12_ImplicitMultiplication ==
    /\ \A c \in ImplicitCases :
          input = c.text =>
              /\ pc # "parseFailed"
              /\ pc = "start" => expr = c.tree
    /\ (pc = "start" /\ input \in NoJunctionTexts) => ~IsProduct(expr)

TextFinished ==
    pc \in {"tokenizeFailed", "parseFailed", "translateFailed", "done", "evaluateFailed"}

(* C13: an identifier directly followed by '(' is parsed as the function   *)
(* call name(arg), not as a product, for each reserved name, in any case   *)
(* of the letters and starting from the source text; a name that is not    *)
(* reserved fails with the error that names it (checked under TextSpec).   *)
C13_NamedFunctionCall ==
    /\ \A name \in ReservedNames \cup {<<"S", "i", "n">>} :
          input = CallText(name) =>
              /\ pc \notin {"tokenizeFailed", "parseFailed", "translateFailed"}
              /\ pc = "start" => expr = FunctionCall(name, n)
    /\ (TextFinished /\ input = CallText(<<"f">>)) =>
          /\ pc = "translateFailed"
          /\ result = [error |-> UnsupportedFunction, name |-> <<"f">>]

IsNumberChar(c) == IsDigit(c) \/ c = "."

(* the characters a letter-led run continues with: [a-zA-Z0-9_] *)
IsNameChar(c) == IsLetter(c) \/ IsDigit(c)

(* the characters of text that token t stands for *)
Lexeme(text, t) == SubSeq(text, t.position + 1, t.position + Len(t.value))

(* token t is one whole run of text: the run's characters satisfy Inside,  *)
(* the first one First, and no character next to it continues the run     *)
IsWholeRun(text, t, First(_), Inside(_), Before(_)) ==
    LET from == t.position + 1
        to == t.position + Len(t.value)
    IN  /\ First(text[from])
        /\ \A i \in from..to : Inside(text[i])
        /\ to < Len(text) => ~Inside(text[to + 1])
        /\ from > 1 => ~Before(text[from - 1])

(* toks is a token sequence of text *)
WellLexed(text, toks) ==
    /\ Len(toks) >= 1
    /\ \A i \in 1..Len(toks) : toks[i].type = "EOF" <=> i = Len(toks)
    /\ \A i \in 1..(Len(toks) - 1) :
          /\ Len(toks[i].value) >= 1
          /\ toks[i].position + Len(toks[i].value) <= toks[i + 1].position
          /\ toks[i].value = Lexeme(text, toks[i])
          /\ \A k \in 1..Len(toks[i].value) : toks[i].value[k] # " "
          /\ toks[i].type = "NUMBER" =>
                IsWholeRun(text, toks[i], IsDigit, IsNumberChar, IsNameChar)
          /\ toks[i].type = "IDENTIFIER" =>
                IsWholeRun(text, toks[i], IsLetter, IsNameChar, IsLetter)
          /\ toks[i].type \notin {"NUMBER", "IDENTIFIER"} =>
                toks[i].type = OperatorType(toks[i].value[1]) /\ Len(toks[i].value) = 1
    /\ \A p \in 1..Len(text) :
          text[p] # " " =>
              \E i \in 1..(Len(toks) - 1) :
                  p \in (toks[i].position + 1)..(toks[i].position + Len(toks[i].value))

(* r is the error for a character of text that starts no token *)
IsLexError(text, r) ==
    /\ r.error = "Unexpected character"
    /\ r.position \in 0..(Len(text) - 1)
    /\ r.char = text[r.position + 1]
    /\ ~IsDigit(r.char) /\ ~IsLetter(r.char) /\ r.char # " "
    /\ OperatorType(r.char) = "none"

(* C14: tokenize either fails with the error naming the offending          *)
(* character and its offset, or returns a sequence with exactly one EOF    *)
(* token, the last one, no token for whitespace, strictly increasing       *)
(* offsets, every digit/decimal-point run as one NUMBER token and every    *)
(* letter-led run as one IDENTIFIER token (checked under TextSpec).        *)
C14_TokenizeWellFormed ==
    /\ pc = "tokenizeFailed" => IsLexError(input, result)
    /\ pc \notin {"input", "tokenizeFailed"} => WellLexed(input, tokens)

(* C15: for every constant b with |b| > 1, positive or negative, n^2 / b^n *)
(* evaluates to Converges(0) and b^n / n^2 to a divergence to +Infinity.   *)
C15_ExponentialOutgrowsPolynomial ==
    /\ (Finished /\ expr \in PolyOverExp) =>
          (pc = "done" /\ result.converges /\ result.limit = Zero)
    /\ (Finished /\ expr \in ExpOverPoly) =>
          (pc = "done" /\ ~result.converges
              /\ Get(result, "divergeTo") = Infinity)

(* ln(n+1) / ln(n) *)
LogQuotient == Quotient(ln(Sum(n, Lit(1))), ln(n))

(* C16: ln(n+1) / ln(n), a quotient of two functions that diverge to       *)
(* +Infinity with growth Logarithmic, evaluates to Converges(1), within    *)
(* the tolerance 0.01.                                                     *)
C16_LogQuotientConvergesToOne ==
    (Finished /\ expr = LogQuotient) =>
        /\ pc = "done"
        /\ result.converges
        /\ NumLt(Frac(99, 100), result.limit) /\ NumLt(result.limit, Frac(101, 100))

(* C17: sin(n) and cos(n) alone evaluate to DivergesIndeterminate; a       *)
(* quotient of a bounded oscillating numerator, a sum of such terms        *)
(* included, and a denominator that diverges to a signed infinity          *)
(* evaluates to Converges(0).                                              *)
C17_OscillationContainment ==
    /\ (Finished /\ expr \in {sin(n), cos(n)}) =>
          (pc = "done" /\ result = DivergeIndeterminant)
    /\ (Finished /\ expr \in OscillatingQuotients) =>
          /\ pc = "done"
          /\ func.cls = "DivideFunction"
          /\ converge(func.numerator) = DivergeIndeterminant
          /\ Get(converge(func.denominator), "divergeTo") \in {Infinity, NegInfinity}
          /\ result.converges /\ result.limit = Zero

(* C17, witness: (sin(n) + cos(n)) / n has evaluated to Converges(0).      *)
C17_Witness ==
    /\ pc = "done"
    /\ expr = Quotient(Sum(sin(n), cos(n)), n)
    /\ result = Converge(Zero, Polynomial)

(* the bases a < b of a quotient (a^n + P) / (b^n + Q) *)
SlowerOverFaster ==
    {q \in MixedQuotients :
        NumLt(q.left.left.base.value, q.right.left.base.value)}

FasterOverSlower ==
    {q \in MixedQuotients :
        NumLt(q.right.left.base.value, q.left.left.base.value)}

(* C18: for constants 1 < a < b and polynomial terms P and Q,              *)
(* (a^n + P) / (b^n + Q) evaluates to a convergent result with limit 0 and *)
(* (b^n + P) / (a^n + Q) to a result that does not converge.               *)
C18_MixedExponentialQuotient ==
    /\ (Finished /\ expr \in SlowerOverFaster) =>
          (pc = "done" /\ result.converges /\ result.limit = Zero)
    /\ (Finished /\ expr \in FasterOverSlower) =>
          (pc = "done" /\ ~result.converges)

(* C19: sqrt(n) / n evaluates to a convergent result with limit 0, and     *)
(* n / sqrt(n) to a result that does not converge.                         *)
C19_SquareRootGrowsSlower ==
    /\ (Finished /\ expr = Quotient(sqrt(n), n)) =>
          (pc = "done" /\ result.converges /\ result.limit = Zero)
    /\ (Finished /\ expr = Quotient(n, sqrt(n))) =>
          (pc = "done" /\ ~result.converges)

(* b^f for a literal base b and an exponent f that is a literal, 1/n       *)
(* (which converges to 0), n (which diverges to +Infinity), -n (to         *)
(* -Infinity) or sin(n) (indeterminate)                                    *)
IsExpOfKnownExponent(e) ==
    /\ e.type = "PowerExpression"
    /\ e.base.type = "NumericLiteral"
    /\ \/ e.exponent.type = "NumericLiteral"
       \/ e.exponent \in {n, UnaryExpression("-", n), sin(n), Quotient(Lit(1), n)}

(* result r agrees with the table for base b and exponent tree f *)
ExpTable(b, f, r) ==
    LET absBase == Num(Abs(b.n), b.d)
    IN  IF f.type = "NumericLiteral"
        THEN r = Converge(MathPow(b, f.value), Exponential)
        ELSE IF f = Quotient(Lit(1), n)
        THEN r = Converge(MathPow(b, Zero), Exponential)
        ELSE IF f = n
        THEN /\ NumLt(One, b) => r = Diverge(Infinity, Exponential)
             /\ b = One => (r.converges /\ r.limit = One)
             /\ (b = Num(-1, 1) \/ NumLt(b, Num(-1, 1))) => r = DivergeIndeterminant
             /\ (NumLt(Zero, absBase) /\ NumLt(absBase, One)) =>
                   r = Converge(Zero, Exponential)
        ELSE IF f = UnaryExpression("-", n)
        THEN /\ NumLt(One, absBase) => (r.converges /\ r.limit = Zero)
             /\ (NumLt(Zero, absBase) /\ NumLt(absBase, One)) =>
                   (~r.converges /\ Get(r, "divergeTo") = Infinity)
        ELSE r = DivergeIndeterminant

(* C20: converge on ConstantBaseExpFunction(b, f) follows the table: f     *)
(* converges to L gives Converges(b^L, Exponential); f diverges to         *)
(* +Infinity gives a divergence to +Infinity, Exponential, when b > 1,     *)
(* Converges(1) when b = 1, DivergesIndeterminate when b <= -1,            *)
(* Converges(0, Exponential) when 0 < |b| < 1; f diverges to -Infinity     *)
(* gives Converges(0) when |b| > 1 and a divergence to +Infinity when      *)
(* 0 < |b| < 1; f indeterminate gives DivergesIndeterminate.               *)
C20_ConstantBaseExpTable ==
    (Finished /\ IsExpOfKnownExponent(expr)) =>
        /\ pc = "done"
        /\ func = ConstantBaseExpFunction(expr.base.value, parseFunction(expr.exponent))
        /\ ExpTable(expr.base.value, expr.exponent, result)

(* C20, witness: (1/2)^(-n) has diverged to +Infinity.                     *)
C20_Witness ==
    /\ pc = "done"
    /\ expr = PowerExpression(NumericLiteral(Num(1, 2)), UnaryExpression("-", n))
    /\ result = Diverge(Infinity, Exponential)

IsExp(f) == f.cls = "ConstantBaseExpFunction"

(* the exponents f and g behave alike: both converge to the same finite    *)
(* limit, or both diverge to the same signed infinity                      *)
SameBehaviour(f, g) ==
    LET cf == converge(f)
        cg == converge(g)
    IN  /\ ~IsThrown(cf) /\ ~IsThrown(cg)
        /\ \/ cf.converges /\ cg.converges /\ cf.limit = cg.limit
           \/ /\ ~cf.converges /\ ~cg.converges
              /\ Get(cf, "divergeTo") \in {Infinity, NegInfinity}
              /\ Get(cf, "divergeTo") = Get(cg, "divergeTo")

(* what divide returns for this and other according to the claim *)
DivideFolded(this, other) ==
    IF IsExp(other) /\ this.base = other.base
    THEN ConstantBaseExpFunction(this.base,
             add(this.exponent, multiply(other.exponent, MinusOne)))
    ELSE IF IsExp(other) /\ SameBehaviour(this.exponent, other.exponent)
    THEN ConstantBaseExpFunction(NumDiv(this.base, other.base), this.exponent)
    ELSE DivideFunction(this, other)

(* C21: ConstantBaseExpFunction.divide by a ConstantBaseExpFunction of a   *)
(* different base folds to ConstantBaseExpFunction(base1/base2, exponent)  *)
(* only when both exponents converge to the same finite limit or diverge   *)
(* to the same signed infinity, and returns a DivideFunction in every      *)
(* other case; with equal bases multiply adds the exponents and divide     *)
(* subtracts them (checked under AlgebraSpec).                             *)
C21_ExpDivideFolds ==
    [][/\ (Divide /\ IsExp(operand.this)) =>
            (pc' = "translated" /\ func' = DivideFolded(operand.this, operand.other))
       /\ (Multiply /\ IsExp(operand.this) /\ IsExp(operand.other)
              /\ operand.this.base = operand.other.base) =>
            func' = ConstantBaseExpFunction(operand.this.base,
                        add(operand.this.exponent, operand.other.exponent))]_vars

(* result r is what the real function of wrapper f gives at the finite     *)
(* limit L of its argument                                                 *)
WrapperAtLimit(f, L, r) ==
    LET logValue == IF f.cls = "LogFunction" THEN NumDiv(MathLog(L), MathLog(f.base))
                    ELSE MathLog(L)
    IN  CASE f.cls = "EExpFunction" -> r.converges /\ r.limit = MathExp(L)
          [] f.cls = "SinFunction" -> r.converges /\ r.limit = MathSin(L)
          [] f.cls = "CosFunction" -> r.converges /\ r.limit = MathCos(L)
          [] f.cls = "SqrtFunction" ->
               IF NumLt(L, Zero) THEN r = DivergeIndeterminant
               ELSE r.converges /\ r.limit = MathSqrt(L)
          [] f.cls \in {"LnFunction", "LogFunction"} ->
               IF isFinite(logValue) THEN r.converges /\ r.limit = logValue
               ELSE /\ ~r.converges
                    /\ Get(r, "divergeTo") \in {Infinity, NegInfinity}
                    /\ logValue = NegInfinity => r.divergeTo = NegInfinity
                    /\ r.growthKind = Logarithmic

(* result r is the composition limit of wrapper f at a signed infinity *)
WrapperAtInfinity(f, to, r) ==
    CASE f.cls = "EExpFunction" ->
           IF to = Infinity THEN r = Diverge(Infinity, Exponential)
           ELSE r.converges /\ r.limit = Zero
      [] f.cls \in {"LnFunction", "LogFunction"} ->
           IF to = Infinity THEN r = Diverge(Infinity, Logarithmic)
           ELSE r = DivergeIndeterminant
      [] f.cls = "SqrtFunction" ->
           IF to = Infinity THEN r = Diverge(Infinity, Polynomial)
           ELSE r = DivergeIndeterminant
      [] f.cls \in {"SinFunction", "CosFunction"} -> r = DivergeIndeterminant

(* the table of the wrappers, for the result a of the argument *)
WrapperTable(f, a, r) ==
    IF a.converges THEN (isFinite(a.limit) => WrapperAtLimit(f, a.limit, r))
    ELSE IF Get(a, "divergeTo") \in {Infinity, NegInfinity}
    THEN WrapperAtInfinity(f, a.divergeTo, r)
    ELSE r = DivergeIndeterminant

(* C22: converge on a wrapper Exp, Log, Ln, Sin, Cos or Sqrt classifies by *)
(* its argument: an indeterminate argument gives DivergesIndeterminate; an *)
(* argument converging to L gives Converges(f(L)), except that Sqrt of a   *)
(* negative L gives DivergesIndeterminate and a non-finite logarithm value *)
(* a signed divergence, Logarithmic; an argument diverging to +Infinity    *)
(* gives +Infinity Exponential for Exp, +Infinity Logarithmic for Ln and   *)
(* Log, +Infinity Polynomial for Sqrt and indeterminate for Sin and Cos;   *)
(* an argument diverging to -Infinity gives Converges(0) for Exp and       *)
(* indeterminate for the others.                                           *)
C22_WrapperTable ==
    (HasEvaluated /\ func.cls \in WrapperClasses \ {"TanFunction"}
        /\ ~IsThrown(converge(func.argument))) =>
        /\ pc = "done"
        /\ WrapperTable(func, converge(func.argument), result)

(* C22, witness: ln(0) has diverged to -Infinity, Logarithmic.             *)
C22_Witness ==
    /\ pc = "done"
    /\ expr = ln(Lit(0))
    /\ result = Diverge(NegInfinity, Logarithmic)

(* the three kinds of operand result the combination tables speak of *)
ToLimit(x) == x.converges /\ IsNum(x.limit) /\ isFinite(x.limit)

Signed(x) == ~x.converges /\ Get(x, "divergeTo") \in {Infinity, NegInfinity}

Oscillates(x) == x = DivergeIndeterminant

InTable(x) == ~IsThrown(x) /\ (ToLimit(x) \/ Signed(x) \/ Oscillates(x))

(* growth kind a is strictly faster than b *)
Outgrows(a, b) ==
    <<a, b>> \in {<<Exponential, Polynomial>>, <<Exponential, Logarithmic>>,
                  <<Polynomial, Logarithmic>>}

Opposite(to) == IF to = Infinity THEN NegInfinity ELSE Infinity

(* the signed infinity with the sign of the product of a nonzero number or *)
(* signed infinity x and a signed infinity to                              *)
SignTimes(x, to) == IF NumLt(Zero, x) THEN to ELSE Opposite(to)

(* r diverges with the sign and the growth kind of the divergent x *)
Follows(r, x) ==
    ~r.converges /\ Get(r, "divergeTo") = x.divergeTo /\ r.growthKind = x.growthKind

(* the table of a sum of l and r *)
AddTable(l, r, res) ==
    IF ToLimit(l) /\ ToLimit(r)
    THEN res.converges /\ res.limit = NumAdd(l.limit, r.limit)
    ELSE IF ToLimit(l) /\ Signed(r) THEN Follows(res, r)
    ELSE IF Signed(l) /\ ToLimit(r) THEN Follows(res, l)
    ELSE IF Signed(l) /\ Signed(r)
    THEN (IF Outgrows(l.growthKind, r.growthKind) THEN Follows(res, l)
          ELSE IF Outgrows(r.growthKind, l.growthKind) THEN Follows(res, r)
          ELSE IF l.divergeTo = r.divergeTo THEN Follows(res, l)
          ELSE res = DivergeIndeterminant)
    ELSE res = DivergeIndeterminant

(* C23: converge on AddFunction(l, r): both converge gives                 *)
(* Converges(Ll+Lr); one converges and the other diverges signed gives the *)
(* other's sign and growth; both diverge signed gives the sign and growth  *)
(* of the strictly faster kind, the common sign when kinds and signs are   *)
(* equal, DivergesIndeterminate when kinds are equal and signs opposite;   *)
(* every combination with an indeterminate operand gives                   *)
(* DivergesIndeterminate.                                                  *)
C23_AddTable ==
    (HasEvaluated /\ func.cls = "AddFunction"
        /\ InTable(converge(func.left)) /\ InTable(converge(func.right))) =>
        /\ pc = "done"
        /\ AddTable(converge(func.left), converge(func.right), result)

(* C23, witness: n + 2^n has been classified as the exponential term.      *)
C23_Witness ==
    /\ pc = "done"
    /\ expr = Sum(n, PowerExpression(Lit(2), n))
    /\ func.cls = "AddFunction"
    /\ result = Diverge(Infinity, Exponential)

(* the table of a product of l and r *)
MultiplyTable(l, r, res) ==
    IF ToLimit(l) /\ ToLimit(r)
    THEN res.converges /\ res.limit = NumMul(l.limit, r.limit)
    ELSE IF \/ ToLimit(l) /\ l.limit = Zero /\ Oscillates(r)
            \/ ToLimit(r) /\ r.limit = Zero /\ Oscillates(l)
    THEN res.converges /\ res.limit = Zero
    ELSE IF ToLimit(l) /\ l.limit # Zero /\ Signed(r)
    THEN /\ ~res.converges /\ Get(res, "divergeTo") = SignTimes(l.limit, r.divergeTo)
         /\ res.growthKind = r.growthKind
    ELSE IF ToLimit(r) /\ r.limit # Zero /\ Signed(l)
    THEN /\ ~res.converges /\ Get(res, "divergeTo") = SignTimes(r.limit, l.divergeTo)
         /\ res.growthKind = l.growthKind
    ELSE IF Signed(l) /\ Signed(r)
    THEN /\ ~res.converges
         /\ Get(res, "divergeTo") = SignTimes(l.divergeTo, r.divergeTo)
         /\ res.growthKind = IF Outgrows(l.growthKind, r.growthKind)
                              THEN l.growthKind ELSE r.growthKind
    ELSE res = DivergeIndeterminant

DivideTable(num, den, res) ==
    IF ToLimit(num) /\ ToLimit(den)
    THEN (IF den.limit = Zero THEN res = DivergeIndeterminant
          ELSE res.converges /\ res.limit = NumDiv(num.limit, den.limit))
    ELSE IF Oscillates(den) THEN res = DivergeIndeterminant
    ELSE IF (ToLimit(num) \/ Oscillates(num)) /\ Signed(den)
    THEN res = Converge(Zero, Polynomial)
    ELSE IF Signed(num) /\ ToLimit(den)
    THEN (IF den.limit = Zero THEN res = DivergeIndeterminant ELSE Follows(res, num))
    ELSE IF Signed(num) /\ Signed(den)
    THEN (IF Outgrows(den.growthKind, num.growthKind)
          THEN res = Converge(Zero, Polynomial)
          ELSE IF Outgrows(num.growthKind, den.growthKind)
          THEN res = Diverge(SignTimes(num.divergeTo, den.divergeTo), num.growthKind)
          ELSE res = DivergeIndeterminant)
    ELSE TRUE

IsNestedRational(f) ==
    IsRational(f) /\ (IsRational(f.numerator) \/ IsRational(f.denominator))

(* C26: for a RationalFunction whose numerator or denominator is itself a  *)
(* RationalFunction, converge returns what the rule of DivideFunction      *)
(* gives for the results of the numerator and of the denominator, whatever *)
(* these two results are.                                                  *)
C26_NestedRationalAsDivide ==
    (HasEvaluated /\ IsNestedRational(func)
        /\ InTable(converge(func.numerator))
        /\ InTable(converge(func.denominator))) =>
        /\ pc = "done"
        /\ result = ConvergeDivide(converge(func.numerator),
                                   converge(func.denominator))

RECURSIVE PolynomialsOf(_)
(* the Polynomial objects a BaseFunction is made of *)
PolynomialsOf(f) ==
    CASE f.cls = "Polynomial" -> {f}
      [] f.cls \in {"RationalFunction", "DivideFunction"} ->
           PolynomialsOf(f.numerator) \cup PolynomialsOf(f.denominator)
      [] f.cls \in {"AddFunction", "MultiplyFunction"} ->
           PolynomialsOf(f.left) \cup PolynomialsOf(f.right)
      [] f.cls = "ConstantBaseExpFunction" -> PolynomialsOf(f.exponent)
      [] OTHER -> PolynomialsOf(f.argument)

(* non-empty, and the last coefficient is nonzero unless the list is [0] *)
Normalized(cs) == Len(cs) >= 1 /\ (cs[Len(cs)] = Zero => cs = <<Zero>>)

(* the polynomial expressions a * b and a + b that are zero as polynomials: *)
(* a factor is the literal 0, or a term is the negative of the other       *)
IsZeroProduct(e) ==
    /\ e.type = "BinaryExpression" /\ e.operator = "*"
    /\ Lit(0) \in {e.left, e.right}
    /\ ~IsThrown(parseFunction(e))
    /\ IsPolynomial(parseFunction(e.left)) /\ IsPolynomial(parseFunction(e.right))

IsCancellingSum(e) ==
    /\ e.type = "BinaryExpression"
    /\ \/ e.operator = "-" /\ e.left = e.right
       \/ e.operator = "+" /\ e.right = UnaryExpression("-", e.left)
    /\ ~IsThrown(parseFunction(e.left))
    /\ IsPolynomial(parseFunction(e.left))

(* C27: every Polynomial built through the constructor, add and multiply   *)
(* is normalized: its coefficient list is non-empty and its last           *)
(* coefficient is nonzero unless the list is [0]; a sum or a product that  *)
(* cancels to zero is [0], and a product with the zero polynomial is [0].  *)
C27_PolynomialsNormalized ==
    pc \in {"translated", "done", "evaluateFailed"} =>
        /\ \A p \in PolynomialsOf(func) : Normalized(p.coefficients)
        /\ (IsZeroProduct(expr) \/ IsCancellingSum(expr)) =>
               (IsPolynomial(func) /\ func.coefficients = <<Zero>>)

(* C27, witness: 0 * (n * n) has been translated to the polynomial [0].    *)
C27_Witness ==
    /\ pc = "translated"
    /\ expr = BinaryExpression("*", Lit(0), BinaryExpression("*", n, n))
    /\ func.coefficients = <<Zero>>

(* the base of the power e is translated and is not taken for a constant *)
HasNonConstantBase(e) ==
    /\ e.type = "PowerExpression"
    /\ e.base.type # "NumericLiteral"
    /\ ~IsThrown(parseFunction(e.base))
    /\ ~(IsPolynomial(parseFunction(e.base))
            /\ Len(parseFunction(e.base).coefficients) = 1)
    /\ ~IsRational(parseFunction(e.base))

RECURSIVE KFold(_, _)
(* f multiplied by itself k times, starting from Polynomial([1]) *)
KFold(f, k) ==
    IF k = 0 THEN NewPolynomial(<<One>>) ELSE multiply(KFold(f, k - 1), f)

(* the translation of base^k for an integer k *)
IntegerPower(baseFunc, k) ==
    IF k >= 0 THEN KFold(baseFunc, k)
    ELSE divide(NewPolynomial(<<One>>), KFold(baseFunc, -k))

IsIntegerLiteral(e) == e.type = "NumericLiteral" /\ isFinite(e.value) /\ e.value.d = 1

(* the law of a power with a non-constant base *)
PowerLaw(e, base) ==
    IF IsIntegerLiteral(e.exponent)
    THEN /\ pc # "translateFailed"
         /\ func = IntegerPower(base, e.exponent.value.n)
         /\ (IsPolynomial(base) /\ e.exponent.value.n >= 0) =>
                /\ IsPolynomial(func)
                /\ Len(func.coefficients) - 1
                       = e.exponent.value.n * (Len(base.coefficients) - 1)
    ELSE IF e.exponent.type # "NumericLiteral"
    THEN pc = "translateFailed" /\ result = Thrown(UnsupportedExponent)
    ELSE pc = "translateFailed"
            \/ \A k \in (-MaxLit - 1)..(MaxLit + 1) : func # IntegerPower(base, k)

(* C28: parseFunction on a power with a non-constant base: a literal       *)
(* integer exponent k >= 0 gives the base multiplied by itself k times     *)
(* (Polynomial([1]) for k = 0, degree k*d for a polynomial base of degree  *)
(* d); k < 0 gives Polynomial([1]) divided by the |k|-fold product; an     *)
(* exponent that is not a literal fails with the unsupported-exponent      *)
(* error; a literal exponent that is not an integer is not translated as   *)
(* if it were an integer power.                                            *)
C28_PowerOfNonConstantBase ==
    (pc # "start" /\ HasNonConstantBase(expr)) =>
        PowerLaw(expr, parseFunction(expr.base))

RECURSIVE FuncDepth(_)
(* the nesting depth of a BaseFunction: the depth to which converge        *)
(* recurses on it                                                          *)
FuncDepth(f) ==
    CASE f.cls = "Polynomial" -> 1
      [] f.cls \in {"RationalFunction", "DivideFunction"} ->
           1 + Max2(FuncDepth(f.numerator), FuncDepth(f.denominator))
      [] f.cls \in {"AddFunction", "MultiplyFunction"} ->
           1 + Max2(FuncDepth(f.left), FuncDepth(f.right))
      [] f.cls = "ConstantBaseExpFunction" -> 1 + FuncDepth(f.exponent)
      [] OTHER -> 1 + FuncDepth(f.argument)

(* the literal 1 or -1 with the sign of the integer k # 0 *)
UnitOf(k) == IF k > 0 THEN 1 ELSE -1

(* base^k, a power with a non-constant base and an integer literal k # 0 *)
IsLiteralPower(e) ==
    /\ HasNonConstantBase(e)
    /\ IsIntegerLiteral(e.exponent)
    /\ e.exponent.value.n # 0

(* C29: the nesting depth of the BaseFunction that parseFunction produces, *)
(* and with it the recursion depth of converge, is bounded by the depth of *)
(* the expression tree and does not depend on the values of the literals:  *)
(* base^k, whose tree is that of base^1 or base^(-1) up to the value of    *)
(* the literal, is translated to a function that is nested no deeper.      *)
C29_DepthIndependentOfLiterals ==
    (pc = "translated" /\ IsLiteralPower(expr)) =>
        FuncDepth(func)
            <= FuncDepth(IntegerPower(parseFunction(expr.base),
                                      UnitOf(expr.exponent.value.n)))

(* f is a sum or a product of two operands on which converge returns *)
IsSumOrProduct(f) ==
    /\ f.cls \in {"AddFunction", "MultiplyFunction"}
    /\ ~IsThrown(converge(f.left)) /\ ~IsThrown(converge(f.right))

(* f with its two operands exchanged *)
Swapped(f) == [f EXCEPT !.left = f.right, !.right = f.left]

(* C30: the classification of a sum and of a product does not depend on    *)
(* the order of the operands: whenever converge returns on l and on r,     *)
(* converge(AddFunction(l, r)) and converge(AddFunction(r, l)) are the     *)
(* same state with the same sign, limit and growth kind, and likewise for  *)
(* MultiplyFunction.                                                       *)
C30_OperandOrderIrrelevant ==
    (HasEvaluated /\ IsSumOrProduct(func)) =>
        (pc = "done" /\ result = converge(Swapped(func)))

(* C30, witness: sin(n) * 0, with the zero factor on the right, has been   *)
(* classified as converging to 0, as 0 * sin(n) is.                        *)
C30_Witness ==
    /\ pc = "done"
    /\ expr = BinaryExpression("*", sin(n), Lit(0))
    /\ func = MultiplyFunction(Wrapper("SinFunction", NewPolynomial(<<Zero, One>>)),
                               NewPolynomial(<<Zero>>))
    /\ result = Converge(Zero, Polynomial)

====
